---------------------------- MODULE Spec2Model ----------------------------
(***************************************************************************)
(* A model of the ISO 38500 governance SDK: the in-memory stores, the      *)
(* application services (GovernanceService, PortfolioService) and the      *)
(* domain services (EvaluationService, DirectionService).                  *)
(*                                                                         *)
(* Conventions.                                                            *)
(*  - A Go map is a function whose DOMAIN is the set of keys present.      *)
(*  - A Go slice is a sequence.  Slices of which the code only reads the   *)
(*    length hold placeholder items.                                       *)
(*  - time.Time is a whole number of days; ZeroTime is the zero value      *)
(*    time.Time{}.  time.Duration is a whole number of days as well.       *)
(*  - float64 percentages are whole numbers in the code (every term is a   *)
(*    literal such as 60.0 or 15.0) and are integers here.                 *)
(*  - Every service call is one action.  It records its arguments in       *)
(*    `call` and what it returned in `ret` (err = TRUE for a non-nil       *)
(*    error).                                                              *)
(***************************************************************************)
EXTENDS Integers, Sequences, FiniteSets, TLC

VARIABLES
    applications,   \* ApplicationRepositoryMemory.applications
    agreements,     \* GovernanceAgreementRepositoryMemory.agreements
    byApplication,  \* GovernanceAgreementRepositoryMemory.byApplication
    portfolios,     \* ApplicationPortfolioRepositoryMemory.portfolios
    byOwner,        \* ApplicationPortfolioRepositoryMemory.byOwner
    events,         \* DomainEventRepositoryMemory.events
    now,            \* the wall clock read by time.Now / time.Since
    call,           \* the last call: its operation and arguments
    ret             \* what the last call returned

vars == <<applications, agreements, byApplication, portfolios, byOwner,
          events, now, call, ret>>

stores == <<applications, agreements, byApplication, portfolios, byOwner, events>>

-----------------------------------------------------------------------------
(* Maps and slices                                                         *)

EmptyMap == [k \in {} |-> k]

MapPut(m, k, v) == [x \in (DOMAIN m) \cup {k} |-> IF x = k THEN v ELSE m[x]]

MapDelete(m, k) == [x \in (DOMAIN m) \ {k} |-> m[x]]

\* append(s[:i-1], s[i:]...) with i counted from 1: s without its i-th item
RemoveAt(s, i) == [j \in 1..(Len(s) - 1) |-> IF j < i THEN s[j] ELSE s[j + 1]]

\* a slice of n placeholder items
Items(n) == [i \in 1..n |-> "item"]

Min(a, b) == IF a < b THEN a ELSE b

Max(a, b) == IF a > b THEN a ELSE b

-----------------------------------------------------------------------------
(* Time                                                                    *)

ZeroTime == 0

\* time.Time.IsZero
IsZero(t) == t = ZeroTime

\* The largest time.Duration (2^63 - 1 ns), in whole days.
MaxDurationDays == 106751

\* time.Since(t), in days: now.Sub(t), which saturates at the largest
\* Duration; the zero time lies more than 292 years back.
Since(t) == IF IsZero(t) THEN MaxDurationDays ELSE now - t

\* A sum of Durations wraps around at the int64 range (2^64 ns, in days).
WrapDuration(d) ==
    ((d + MaxDurationDays + 1) % (2 * MaxDurationDays + 2)) - (MaxDurationDays + 1)

\* Go's integer division truncates toward zero.
GoDiv(a, b) == IF a >= 0 THEN a \div b ELSE -((-a) \div b)

-----------------------------------------------------------------------------
(* Domain constants                                                        *)

StatusActive == "active"
StatusDeprecated == "deprecated"
StatusRetired == "retired"
StatusPlanned == "planned"

AgreementDraft == "draft"
AgreementApproved == "approved"
AgreementActive == "active"

RiskLow == "low"
RiskMedium == "medium"
RiskHigh == "high"
RiskCritical == "critical"

RiskLevels == {RiskLow, RiskMedium, RiskHigh, RiskCritical}

-----------------------------------------------------------------------------
(* EvaluationService: technical health                                     *)

\* len(strings.Split(version, ".")) for a version held as a sequence of
\* characters: one part more than there are separators
RECURSIVE SplitCount(_)
SplitCount(version) ==
    IF version = <<>> THEN 1
    ELSE (IF Head(version) = "." THEN 1 ELSE 0) + SplitCount(Tail(version))

analyzeVersionMaturity(version) ==
    IF version = <<>> THEN -1
    ELSE IF SplitCount(version) >= 3 THEN 1
    ELSE 0  \* with or without a dev/alpha/beta/rc marker

analyzeSecurityProvisions(provisions) ==
    LET conf  == IF Len(provisions.DataConfidentiality) > 0
                 THEN 1 + (IF Len(provisions.DataConfidentiality) > 2 THEN 1 ELSE 0)
                 ELSE 0
        integ == IF Len(provisions.DataIntegrity) > 0
                 THEN 1 + (IF Len(provisions.DataIntegrity) > 2 THEN 1 ELSE 0)
                 ELSE 0
        auth  == IF Len(provisions.ApplicationAuthenticity) > 0 THEN 1 ELSE 0
        roles == IF Len(provisions.RolesAndPermissions) > 0
                 THEN 1 + (IF Len(provisions.RolesAndPermissions) > 3 THEN 1 ELSE 0)
                 ELSE 0
        sla   == IF provisions.ApplicationAvailability.ResponseTime > 0 THEN 1 ELSE 0
    IN  (conf + integ + auth + roles + sla) - 2

analyzeDocumentationCompleteness(catalogue) ==
    LET updated == IF ~IsZero(catalogue.LastUpdated)
                   THEN (IF Since(catalogue.LastUpdated) < 90 THEN 2
                         ELSE IF Since(catalogue.LastUpdated) < 365 THEN 1
                         ELSE 0)
                   ELSE -1
        func    == IF Len(catalogue.Functionality) > 0
                   THEN 1 + (IF Len(catalogue.Functionality) > 5 THEN 1 ELSE 0)
                   ELSE 0
    IN  updated + func

analyzeApplicationAge(createdAt, updatedAt) ==
    IF IsZero(createdAt) THEN 0
    ELSE IF Since(createdAt) > 365 * 5 THEN -2
    ELSE IF Since(createdAt) > 365 * 2 THEN -1
    ELSE IF ~IsZero(updatedAt) /\ Since(updatedAt) < 90 THEN 1
    ELSE 0

analyzeApplicationStatus(status) ==
    CASE status = StatusActive     -> 1
      [] status = StatusDeprecated -> -1
      [] status = StatusRetired    -> -2
      [] status = StatusPlanned    -> 0
      [] OTHER                     -> 0

\* adjustScoreWithVariance scaling the score by maxFactor, given in tenths,
\* before it rounds and holds it
adjustScoreWithVariance_Scaled(baseScore, minFactor, maxFactor) ==
    Max(1, Min(5, GoDiv(baseScore * maxFactor + 5, 10)))

\* adjustScoreWithVariance without the final hold to 1..5
adjustScoreWithVariance_Unclamped(baseScore, minFactor, maxFactor) ==
    LET variance == Max(-5, Min(5, baseScore))
    IN  GoDiv(baseScore * 10 + variance + 5, 10)

\* Scores in tenths: variance = 0.1 * baseScore, held to +-0.5; the sum is
\* held to 1..5 and int(adjusted + 0.5) truncates.  The factors are unused.
adjustScoreWithVariance(baseScore, minFactor, maxFactor) ==
    LET variance == Max(-5, Min(5, baseScore))
        adjusted == Max(10, Min(50, baseScore * 10 + variance))
    IN  GoDiv(adjusted + 5, 10)

\* The running score of assessTechnicalHealth, held to 1..5
technicalScore(app) ==
    LET score == 3 + analyzeVersionMaturity(app.Version)
                   + analyzeSecurityProvisions(app.SecurityProvisions)
                   + analyzeDocumentationCompleteness(app.Catalogue)
                   + analyzeApplicationAge(app.CreatedAt, app.UpdatedAt)
                   + analyzeApplicationStatus(app.Status)
    IN  Max(1, Min(5, score))

assessTechnicalHealth(app) ==
    LET score         == technicalScore(app)
        securityScore == analyzeSecurityProvisions(app.SecurityProvisions)
        ageScore      == analyzeApplicationAge(app.CreatedAt, app.UpdatedAt)
    IN  [CodeQuality      |-> adjustScoreWithVariance(score, 8, 12),
         Documentation    |-> adjustScoreWithVariance(score, 9, 11),
         TestCoverage     |-> score * 20 + securityScore * 5,
         SecurityScore    |-> adjustScoreWithVariance(score + securityScore, 7, 13),
         PerformanceScore |-> adjustScoreWithVariance(score + ageScore, 8, 12)]

\* A call of adjustScoreWithVariance; the factors are in tenths
CallAdjustScoreWithVariance(baseScore, minFactor, maxFactor) ==
    /\ call' = [op |-> "adjustScoreWithVariance", baseScore |-> baseScore,
                minFactor |-> minFactor, maxFactor |-> maxFactor]
    /\ ret' = [op |-> "adjustScoreWithVariance", err |-> FALSE,
               val |-> adjustScoreWithVariance(baseScore, minFactor, maxFactor)]
    /\ UNCHANGED <<applications, agreements, byApplication, portfolios,
                   byOwner, events, now>>

\* A call of assessTechnicalHealth
CallAssessTechnicalHealth(app) ==
    /\ call' = [op |-> "assessTechnicalHealth", app |-> app]
    /\ ret' = [op |-> "assessTechnicalHealth", err |-> FALSE,
               val |-> assessTechnicalHealth(app)]
    /\ UNCHANGED <<applications, agreements, byApplication, portfolios,
                   byOwner, events, now>>

-----------------------------------------------------------------------------
(* Zero values and repository lookups                                      *)

\* domain.Application{}
ZeroApplication ==
    [ID |-> "", Name |-> "", Description |-> "", Version |-> <<>>,
     Status |-> "", CreatedAt |-> ZeroTime, UpdatedAt |-> ZeroTime,
     GovernanceAgreementID |-> "",
     Catalogue |-> [LastUpdated |-> ZeroTime, Functionality |-> <<>>],
     SecurityProvisions |->
        [DataConfidentiality |-> <<>>, DataIntegrity |-> <<>>,
         ApplicationAuthenticity |-> <<>>, RolesAndPermissions |-> <<>>,
         ApplicationAvailability |-> [ResponseTime |-> 0]]]

\* domain.GovernanceAgreement{}
ZeroAgreement ==
    [ID |-> "", ApplicationID |-> "", Title |-> "", Version |-> "", Status |-> "",
     CreatedAt |-> ZeroTime, UpdatedAt |-> ZeroTime,
     Strategy |-> "", Acquisition |-> "", Performance |-> "",
     Conformance |-> [ComplianceMonitoring |-> [MonitoringFrequency |-> ""]],
     Implementation |-> "",
     Evaluate |-> [PerformanceMetrics |-> <<>>],
     Direct |-> [StrategicDirection |-> [Objectives |-> <<>>, Initiatives |-> <<>>],
                 ResourceAllocation |-> [BudgetAllocations |-> <<>>,
                                         PersonnelAllocations |-> <<>>],
                 PolicyFramework |-> [Policies |-> <<>>, Standards |-> <<>>,
                                      Procedures |-> <<>>],
                 ActionPlans |-> <<>>, LastDirected |-> ZeroTime]]

\* domain.ApplicationPortfolio{}
ZeroPortfolio ==
    [ID |-> "", Name |-> "", Description |-> "", Owner |-> "", Applications |-> <<>>,
     CreatedAt |-> ZeroTime, UpdatedAt |-> ZeroTime]

\* a nil pointer result
Nil == [nil |-> TRUE]

ApplicationRepo_FindByID(id) ==
    IF id \in DOMAIN applications
    THEN [err |-> FALSE, val |-> applications[id]]
    ELSE [err |-> TRUE, val |-> ZeroApplication]

AgreementRepo_FindByID(id) ==
    IF id \in DOMAIN agreements
    THEN [err |-> FALSE, val |-> agreements[id]]
    ELSE [err |-> TRUE, val |-> ZeroAgreement]

AgreementRepo_FindByApplicationID(appID) ==
    IF appID \notin DOMAIN byApplication
    THEN [err |-> TRUE, val |-> ZeroAgreement]
    ELSE IF byApplication[appID] \notin DOMAIN agreements
    THEN [err |-> TRUE, val |-> ZeroAgreement]
    ELSE [err |-> FALSE, val |-> agreements[byApplication[appID]]]

PortfolioRepo_FindByID(id) ==
    IF id \in DOMAIN portfolios
    THEN [err |-> FALSE, val |-> portfolios[id]]
    ELSE [err |-> TRUE, val |-> ZeroPortfolio]

-----------------------------------------------------------------------------
(* EvaluationService: business value                                       *)

\* int(float64(x) * f) for f given in tenths.  The float64 product of 5400
\* and 1.4 is 7559.999999999999, one below the exact product.
RoundsBelow == {<<5400, 14>>}

MulTrunc(x, tenths) ==
    IF <<x, tenths>> \in RoundsBelow
    THEN ((x * tenths) \div 10) - 1
    ELSE (x * tenths) \div 10

\* application names that contain "legacy" in any letter case
LegacyNames == {"Legacy ERP"}

\* agreement: [nil |-> whether the pointer is nil, v |-> the agreement]
calculateUsageMetrics(app, agreement) ==
    LET users0 == CASE app.Status = StatusActive     -> 50 * 2
                    [] app.Status = StatusDeprecated -> 50 \div 2
                    [] app.Status = StatusRetired    -> 50 \div 4
                    [] OTHER                         -> 50
        tx0    == CASE app.Status = StatusActive     -> 1000 * 3
                    [] app.Status = StatusDeprecated -> 1000 \div 2
                    [] app.Status = StatusRetired    -> 1000 \div 4
                    [] OTHER                         -> 1000
        users1 == IF ~agreement.nil THEN MulTrunc(users0, 15) ELSE users0
        tx1    == IF ~agreement.nil THEN MulTrunc(tx0, 18) ELSE tx0
        mature == ~IsZero(app.CreatedAt) /\ Since(app.CreatedAt) > 3 * 365
        users2 == IF mature THEN MulTrunc(users1, 13) ELSE users1
        tx2    == IF mature THEN MulTrunc(tx1, 14) ELSE tx1
    IN  [ActiveUsers       |-> users2,
         TransactionVolume |-> tx2,
         \* in tenths of a percent
         UptimePercentage  |->
             990 + (IF Len(app.SecurityProvisions.RolesAndPermissions) > 0 THEN 5 ELSE 0)
                 + (IF ~IsZero(app.UpdatedAt) /\ Since(app.UpdatedAt) < 30 THEN 4 ELSE 0),
         \* in milliseconds
         ResponseTime      |->
             300 + (IF app.Name \in LegacyNames THEN 200 ELSE 0)
                 + (IF Len(app.SecurityProvisions.DataIntegrity) > 0 THEN 50 ELSE 0)]

calculateBusinessAlignment(app, agreement) ==
    LET governed == IF ~agreement.nil
                    THEN 20
                         + (IF Len(agreement.v.Direct.StrategicDirection.Objectives) > 0
                            THEN 5 ELSE 0)
                         + (IF agreement.v.Conformance.ComplianceMonitoring.MonitoringFrequency # ""
                            THEN 5 ELSE 0)
                    ELSE 0
        status   == CASE app.Status = StatusActive     -> 5
                      [] app.Status = StatusPlanned    -> 2
                      [] app.Status = StatusDeprecated -> -10
                      [] app.Status = StatusRetired    -> -20
                      [] OTHER                         -> 0
        recent   == IF ~IsZero(app.UpdatedAt) /\ Since(app.UpdatedAt) < 90 THEN 3 ELSE 0
    IN  Max(0, Min(100, 70 + governed + status + recent))

calculateCostEfficiency(app, agreement) ==
    LET governed == IF ~agreement.nil
                    THEN 15
                         + (IF Len(agreement.v.Direct.ResourceAllocation.BudgetAllocations) > 0
                            THEN 10 ELSE 0)
                    ELSE 0
        status   == CASE app.Status = StatusActive     -> 10
                      [] app.Status = StatusDeprecated -> -15
                      [] app.Status = StatusRetired    -> -25
                      [] app.Status = StatusPlanned    -> 5
                      [] OTHER                         -> 0
        age      == IF IsZero(app.CreatedAt) THEN 0
                    ELSE IF Since(app.CreatedAt) > 5 * 365 THEN -10
                    ELSE IF Since(app.CreatedAt) < 365 THEN 5
                    ELSE 0
        securityMeasures == Len(app.SecurityProvisions.DataConfidentiality)
                          + Len(app.SecurityProvisions.DataIntegrity)
                          + Len(app.SecurityProvisions.RolesAndPermissions)
        security == IF securityMeasures > 3 THEN 5 ELSE 0
    IN  Max(0, Min(100, 60 + governed + status + age + security))

calculateUserSatisfaction(app, agreement) ==
    LET governed == IF ~agreement.nil
                    THEN 15 + (IF Len(agreement.v.Evaluate.PerformanceMetrics) > 0
                               THEN 5 ELSE 0)
                    ELSE 0
        status   == CASE app.Status = StatusActive     -> 10
                      [] app.Status = StatusDeprecated -> -15
                      [] app.Status = StatusRetired    -> -30
                      [] app.Status = StatusPlanned    -> 5
                      [] OTHER                         -> 0
        recent   == IF ~IsZero(app.UpdatedAt) /\ Since(app.UpdatedAt) < 60 THEN 8 ELSE 0
        roles    == IF Len(app.SecurityProvisions.RolesAndPermissions) > 0 THEN 3 ELSE 0
    IN  Max(0, Min(100, 65 + governed + status + recent + roles))

\* The agreement is looked up again, by the application's ID.
assessBusinessValue(app) ==
    LET found     == AgreementRepo_FindByApplicationID(app.ID)
        agreement == [nil |-> found.err, v |-> found.val]
    IN  [UsageMetrics      |-> calculateUsageMetrics(app, agreement),
         BusinessAlignment |-> calculateBusinessAlignment(app, agreement),
         CostEfficiency    |-> calculateCostEfficiency(app, agreement),
         UserSatisfaction  |-> calculateUserSatisfaction(app, agreement)]

-----------------------------------------------------------------------------
(* EvaluationService: risk level and recommendations                       *)

\* determineRiskLevel with the average rounded to the nearest integer
determineRiskLevel_Rounded(techHealth, businessValue) ==
    LET avgScore == GoDiv(2 * (techHealth.CodeQuality + techHealth.SecurityScore
                               + techHealth.PerformanceScore) + 3, 6)
    IN  IF avgScore <= 2 \/ businessValue.CostEfficiency < 50 THEN RiskCritical
        ELSE IF avgScore <= 3 \/ businessValue.CostEfficiency < 70 THEN RiskHigh
        ELSE IF avgScore <= 4 THEN RiskMedium
        ELSE RiskLow

determineRiskLevel(techHealth, businessValue) ==
    LET avgScore == GoDiv(techHealth.CodeQuality + techHealth.SecurityScore
                          + techHealth.PerformanceScore, 3)
    IN  IF avgScore <= 2 \/ businessValue.CostEfficiency < 50 THEN RiskCritical
        ELSE IF avgScore <= 3 \/ businessValue.CostEfficiency < 70 THEN RiskHigh
        ELSE IF avgScore <= 4 THEN RiskMedium
        ELSE RiskLow

\* generateRecommendations with the technical check ahead of the security check
generateRecommendations_TechFirst(techHealth, businessValue, riskLevel) ==
    (IF techHealth.CodeQuality < 3
     THEN <<[ID |-> "tech-001", Type |-> "enhance", Priority |-> "medium",
             EstimatedEffort |-> 120]>>
     ELSE <<>>)
    \o
    (IF techHealth.SecurityScore < 3
     THEN <<[ID |-> "sec-001", Type |-> "modernize", Priority |-> "high",
             EstimatedEffort |-> 80]>>
     ELSE <<>>)
    \o
    (IF businessValue.CostEfficiency <= 70
     THEN <<[ID |-> "cost-001", Type |-> "replace", Priority |-> "medium",
             EstimatedEffort |-> 40]>>
     ELSE <<>>)
    \o
    (IF riskLevel = RiskCritical
     THEN <<[ID |-> "risk-001", Type |-> "retire", Priority |-> "critical",
             EstimatedEffort |-> 160]>>
     ELSE <<>>)

\* EstimatedEffort in hours
generateRecommendations(techHealth, businessValue, riskLevel) ==
    (IF techHealth.SecurityScore < 3
     THEN <<[ID |-> "sec-001", Type |-> "modernize", Priority |-> "high",
             EstimatedEffort |-> 80]>>
     ELSE <<>>)
    \o
    (IF techHealth.CodeQuality < 3
     THEN <<[ID |-> "tech-001", Type |-> "enhance", Priority |-> "medium",
             EstimatedEffort |-> 120]>>
     ELSE <<>>)
    \o
    (IF businessValue.CostEfficiency < 70
     THEN <<[ID |-> "cost-001", Type |-> "replace", Priority |-> "medium",
             EstimatedEffort |-> 40]>>
     ELSE <<>>)
    \o
    (IF riskLevel = RiskCritical
     THEN <<[ID |-> "risk-001", Type |-> "retire", Priority |-> "critical",
             EstimatedEffort |-> 160]>>
     ELSE <<>>)

\* Lines 59-77 of EvaluateApplication: the assessment of a resolved application
assess(appID, app) ==
    LET technicalHealth == assessTechnicalHealth(app)
        businessValue   == assessBusinessValue(app)
        riskLevel       == determineRiskLevel(technicalHealth, businessValue)
    IN  [ApplicationID   |-> appID,
         TechnicalHealth |-> technicalHealth,
         BusinessValue   |-> businessValue,
         RiskLevel       |-> riskLevel,
         Recommendations |-> generateRecommendations(technicalHealth, businessValue,
                                                     riskLevel)]

\* EvaluateApplication without the lookup of the agreement
EvaluateApplication_NoAgreementCheck(appID, evaluator) ==
    LET found == ApplicationRepo_FindByID(appID)
    IN  IF found.err THEN [err |-> TRUE, val |-> Nil]
        ELSE [err |-> FALSE, val |-> assess(appID, found.val)]

\* EvaluateApplication giving the "system" evaluator no recommendations
EvaluateApplication_ByEvaluator(appID, evaluator) ==
    LET found == ApplicationRepo_FindByID(appID)
    IN  IF found.err THEN [err |-> TRUE, val |-> Nil]
        ELSE IF AgreementRepo_FindByApplicationID(appID).err
        THEN [err |-> TRUE, val |-> Nil]
        ELSE [err |-> FALSE,
              val |-> IF evaluator = "system"
                      THEN [assess(appID, found.val) EXCEPT !.Recommendations = <<>>]
                      ELSE assess(appID, found.val)]

\* EvaluationService.EvaluateApplication
EvaluateApplication(appID, evaluator) ==
    LET found == ApplicationRepo_FindByID(appID)
    IN  IF found.err THEN [err |-> TRUE, val |-> Nil]
        ELSE IF AgreementRepo_FindByApplicationID(appID).err
        THEN [err |-> TRUE, val |-> Nil]
        ELSE [err |-> FALSE, val |-> assess(appID, found.val)]

-----------------------------------------------------------------------------
(* EvaluationService.EvaluatePortfolio and the evaluation calls            *)

\* riskDistribution[level], 0 when the map has no such key
RiskCount(riskDistribution, level) ==
    IF level \in DOMAIN riskDistribution THEN riskDistribution[level] ELSE 0

RECURSIVE EvaluateMembers_CountFirst(_, _, _)
\* The loop of EvaluatePortfolio counting a member's status before it
\* evaluates the member
EvaluateMembers_CountFirst(apps, i, acc) ==
    IF i > Len(apps) THEN acc
    ELSE LET assessment == EvaluateApplication(apps[i].ID, "system")
             counted == [acc EXCEPT
                 !.activeApps = @ + (IF apps[i].Status = StatusActive THEN 1 ELSE 0),
                 !.deprecatedApps =
                     @ + (IF apps[i].Status = StatusDeprecated THEN 1 ELSE 0)]
         IN  IF assessment.err
             THEN EvaluateMembers_CountFirst(apps, i + 1, counted)
             ELSE EvaluateMembers_CountFirst(apps, i + 1,
                    [counted EXCEPT
                       !.riskDistribution =
                          MapPut(@, assessment.val.RiskLevel,
                                 RiskCount(@, assessment.val.RiskLevel) + 1)])

RECURSIVE EvaluateMembers(_, _, _)
\* The loop of EvaluatePortfolio from member i on: a member whose evaluation
\* fails is skipped, the others are counted by the status of the portfolio's
\* copy and by the risk level of their assessment
EvaluateMembers(apps, i, acc) ==
    IF i > Len(apps) THEN acc
    ELSE LET assessment == EvaluateApplication(apps[i].ID, "system")
         IN  IF assessment.err
             THEN EvaluateMembers(apps, i + 1, acc)
             ELSE EvaluateMembers(apps, i + 1,
                    [activeApps |->
                        acc.activeApps
                        + (IF apps[i].Status = StatusActive THEN 1 ELSE 0),
                     deprecatedApps |->
                        acc.deprecatedApps
                        + (IF apps[i].Status = StatusDeprecated THEN 1 ELSE 0),
                     riskDistribution |->
                        MapPut(acc.riskDistribution, assessment.val.RiskLevel,
                               RiskCount(acc.riskDistribution,
                                         assessment.val.RiskLevel) + 1)])

RECURSIVE TotalAge(_, _)
\* The sum of time.Since(app.CreatedAt) over the members from i on
TotalAge(apps, i) ==
    IF i > Len(apps) THEN 0
    ELSE WrapDuration(Since(apps[i].CreatedAt) + TotalAge(apps, i + 1))

\* calculateAverageApplicationAge without its case for the empty list: the
\* empty list is aged as one application that has no creation time
calculateAverageApplicationAge_NoEmptyCase(apps) ==
    IF Len(apps) = 0 THEN Since(ZeroTime)
    ELSE GoDiv(TotalAge(apps, 1), Len(apps))

\* EvaluationService.calculateAverageApplicationAge
calculateAverageApplicationAge(apps) ==
    IF Len(apps) = 0 THEN 0
    ELSE GoDiv(TotalAge(apps, 1), Len(apps))

\* EvaluationService.EvaluatePortfolio
EvaluatePortfolio(portfolioID) ==
    LET found == PortfolioRepo_FindByID(portfolioID)
        apps  == found.val.Applications
        counts == EvaluateMembers(apps, 1,
                     [activeApps |-> 0, deprecatedApps |-> 0,
                      riskDistribution |-> EmptyMap])
    IN  IF found.err THEN [err |-> TRUE, val |-> Nil]
        ELSE [err |-> FALSE,
              val |-> [TotalApplications      |-> Len(apps),
                       ActiveApplications     |-> counts.activeApps,
                       DeprecatedApplications |-> counts.deprecatedApps,
                       RedundantApplications  |-> 0,
                       TotalCost              |-> 0,
                       AverageApplicationAge  |->
                           calculateAverageApplicationAge(apps),
                       RiskDistribution       |-> counts.riskDistribution]]

\* A call of EvaluateApplication that kept a record of the evaluation in the
\* event log
CallEvaluateApplication_Logged(appID, evaluator) ==
    /\ call' = [op |-> "EvaluateApplication", appID |-> appID,
                evaluator |-> evaluator, at |-> now,
                previous |-> IF call.op = "EvaluateApplication"
                             THEN [nil |-> FALSE, appID |-> call.appID,
                                   at |-> call.at, err |-> ret.err,
                                   val |-> ret.val]
                             ELSE Nil]
    /\ ret' = [op |-> "EvaluateApplication"] @@ EvaluateApplication(appID, evaluator)
    /\ events' = Append(events, [Type |-> "ApplicationEvaluated",
                                 ApplicationID |-> appID, OccurredAt |-> now])
    /\ UNCHANGED <<applications, agreements, byApplication, portfolios,
                   byOwner, now>>

\* A call of EvaluateApplication.  `at` is the clock when it was made;
\* `previous` is the call it directly follows, when that was a call of
\* EvaluateApplication too.
CallEvaluateApplication(appID, evaluator) ==
    /\ call' = [op |-> "EvaluateApplication", appID |-> appID,
                evaluator |-> evaluator, at |-> now,
                previous |-> IF call.op = "EvaluateApplication"
                             THEN [nil |-> FALSE, appID |-> call.appID,
                                   at |-> call.at, err |-> ret.err,
                                   val |-> ret.val]
                             ELSE Nil]
    /\ ret' = [op |-> "EvaluateApplication"] @@ EvaluateApplication(appID, evaluator)
    /\ UNCHANGED <<stores, now>>

\* A call of EvaluatePortfolio
CallEvaluatePortfolio(portfolioID) ==
    /\ call' = [op |-> "EvaluatePortfolio", portfolioID |-> portfolioID,
                at |-> now]
    /\ ret' = [op |-> "EvaluatePortfolio"] @@ EvaluatePortfolio(portfolioID)
    /\ UNCHANGED <<stores, now>>

\* Time passes between two calls
Tick(t) ==
    /\ t > now
    /\ now' = t
    /\ UNCHANGED <<stores, call, ret>>

-----------------------------------------------------------------------------
(* The scoring functions on their own                                      *)

NoCall == [op |-> "none"]

NoRet == [op |-> "none", err |-> FALSE, val |-> Nil]

\* The clock when the model starts: ten years after the zero time
Clock0 == 10 * 365

\* Every combination of the sub-scores that determineRiskLevel and
\* generateRecommendations read, and every whole cost-efficiency percentage
ScoreInputs ==
    [op : {"scores"},
     techHealth : [CodeQuality : 1..5, Documentation : {3}, TestCoverage : {60},
                   SecurityScore : 1..5, PerformanceScore : 1..5],
     businessValue : [BusinessAlignment : {70}, CostEfficiency : 0..100,
                      UserSatisfaction : {65}]]

InitScore ==
    /\ applications = EmptyMap
    /\ agreements = EmptyMap
    /\ byApplication = EmptyMap
    /\ portfolios = EmptyMap
    /\ byOwner = EmptyMap
    /\ events = <<>>
    /\ now = Clock0
    /\ call \in ScoreInputs
    /\ ret = NoRet

\* line 66 of EvaluateApplication
DetermineRiskLevel ==
    /\ call.op = "scores"
    /\ ret.op = "none"
    /\ ret' = [op |-> "determineRiskLevel", err |-> FALSE,
               val |-> [RiskLevel |-> determineRiskLevel(call.techHealth,
                                                         call.businessValue)]]
    /\ UNCHANGED <<stores, now, call>>

\* lines 69-77 of EvaluateApplication
GenerateRecommendations ==
    /\ call.op = "scores"
    /\ ret.op = "determineRiskLevel"
    /\ ret' = [op |-> "generateRecommendations", err |-> FALSE,
               val |-> [TechnicalHealth |-> call.techHealth,
                        BusinessValue   |-> call.businessValue,
                        RiskLevel       |-> ret.val.RiskLevel,
                        Recommendations |->
                            generateRecommendations(call.techHealth,
                                                    call.businessValue,
                                                    ret.val.RiskLevel)]]
    /\ UNCHANGED <<stores, now, call>>

NextScore == DetermineRiskLevel \/ GenerateRecommendations

SpecScore == InitScore /\ [][NextScore]_vars

-----------------------------------------------------------------------------
(* EvaluateApplication over a range of applications and agreements         *)

\* "", "2.0-beta", "1.0.0"
EvalVersions ==
    {<<>>, <<"2", ".", "0", "-", "b", "e", "t", "a">>, <<"1", ".", "0", ".", "0">>}

EvalStatuses == {StatusActive, StatusDeprecated, StatusRetired, StatusPlanned, ""}

\* unset; under a year; between two and three years; between three and
\* five; over five years before Clock0
EvalCreatedAts ==
    {ZeroTime, Clock0 - 100, Clock0 - 1000, Clock0 - 1500, Clock0 - 2000}

\* unset; 10 days and 400 days before Clock0
EvalUpdatedAts == {ZeroTime, Clock0 - 10, Clock0 - 400}

EvalCatalogues ==
    [LastUpdated : {ZeroTime, Clock0 - 10, Clock0 - 200, Clock0 - 400},
     Functionality : {Items(0), Items(6)}]

EvalSecurityProvisions ==
    [DataConfidentiality : {Items(0), Items(1), Items(3)},
     DataIntegrity : {Items(0), Items(3)},
     ApplicationAuthenticity : {Items(0), Items(1)},
     RolesAndPermissions : {Items(0), Items(4)},
     ApplicationAvailability : [ResponseTime : {0, 200}]]

EvalApplications ==
    [ID : {"a1"}, Name : {"CRM"}, Version : EvalVersions, Status : EvalStatuses,
     CreatedAt : EvalCreatedAts, UpdatedAt : EvalUpdatedAts,
     GovernanceAgreementID : {"g1"},
     Catalogue : EvalCatalogues,
     SecurityProvisions : EvalSecurityProvisions]

\* What the scoring reads of an agreement: nothing set, one field set, all set
EvalAgreementFields ==
    {<<0, 0, 0, 0>>, <<1, 0, 0, 0>>, <<0, 1, 0, 0>>, <<0, 0, 1, 0>>, <<0, 0, 0, 1>>,
     <<1, 1, 1, 1>>}

EvalAgreements ==
    {[ZeroAgreement EXCEPT
        !.ID = "g1", !.ApplicationID = "a1", !.Title = "Agreement",
        !.Version = "1.0", !.Status = AgreementDraft,
        !.Direct.StrategicDirection.Objectives = Items(f[1]),
        !.Direct.ResourceAllocation.BudgetAllocations = Items(f[2]),
        !.Evaluate.PerformanceMetrics = Items(f[3]),
        !.Conformance.ComplianceMonitoring.MonitoringFrequency =
            IF f[4] = 1 THEN "monthly" ELSE ""]
     : f \in EvalAgreementFields}

InitEval ==
    /\ \E app \in EvalApplications : applications = [id \in {"a1"} |-> app]
    /\ \E agreement \in EvalAgreements : agreements = [id \in {"g1"} |-> agreement]
    /\ byApplication = [id \in {"a1"} |-> "g1"]
    /\ portfolios = EmptyMap
    /\ byOwner = EmptyMap
    /\ events = <<>>
    /\ now = Clock0
    /\ call = NoCall
    /\ ret = NoRet

EvaluateStoredApplication ==
    /\ call.op = "none"
    /\ \E appID \in {"a1"}, evaluator \in {"auditor"} :
        CallEvaluateApplication(appID, evaluator)

NextEval == EvaluateStoredApplication

SpecEval == InitEval /\ [][NextEval]_vars

-----------------------------------------------------------------------------
(* The stores' and services' operations, one action each                   *)

\* A bound on the length of the event log, which only ever grows
MaxEvents == 3

\* What an operation that returns only an error returned
Returned(op, err) == [op |-> op, err |-> err, val |-> Nil]

\* DomainEventRepositoryMemory.Save: the log after the append
EventRepo_Save(event) == Append(events, event)

\* ApplicationRepositoryMemory.Save
ApplicationRepo_Save(app) ==
    /\ applications' = MapPut(applications, app.ID, app)
    /\ call' = [op |-> "ApplicationRepo.Save", ID |-> app.ID]
    /\ ret' = Returned("ApplicationRepo.Save", FALSE)
    /\ UNCHANGED <<agreements, byApplication, portfolios, byOwner, events, now>>

\* ApplicationRepositoryMemory.Update writing through to the members of the
\* portfolios, as it would if a portfolio held references to the records
ApplicationRepo_Update_Shared(app) ==
    /\ call' = [op |-> "ApplicationRepo.Update", ID |-> app.ID]
    /\ IF app.ID \notin DOMAIN applications
       THEN /\ ret' = Returned("ApplicationRepo.Update", TRUE)
            /\ UNCHANGED <<applications, portfolios>>
       ELSE /\ applications' = MapPut(applications, app.ID, app)
            /\ portfolios' =
                 [id \in DOMAIN portfolios |->
                    [portfolios[id] EXCEPT !.Applications =
                        [i \in 1..Len(@) |->
                           IF @[i].ID = app.ID THEN app ELSE @[i]]]]
            /\ ret' = Returned("ApplicationRepo.Update", FALSE)
    /\ UNCHANGED <<agreements, byApplication, byOwner, events, now>>

\* ApplicationRepositoryMemory.Update
ApplicationRepo_Update(app) ==
    /\ call' = [op |-> "ApplicationRepo.Update", ID |-> app.ID]
    /\ IF app.ID \notin DOMAIN applications
       THEN /\ ret' = Returned("ApplicationRepo.Update", TRUE)
            /\ UNCHANGED applications
       ELSE /\ applications' = MapPut(applications, app.ID, app)
            /\ ret' = Returned("ApplicationRepo.Update", FALSE)
    /\ UNCHANGED <<agreements, byApplication, portfolios, byOwner, events, now>>

\* ApplicationRepositoryMemory.Delete
ApplicationRepo_Delete(id) ==
    /\ call' = [op |-> "ApplicationRepo.Delete", ID |-> id]
    /\ IF id \notin DOMAIN applications
       THEN /\ ret' = Returned("ApplicationRepo.Delete", TRUE)
            /\ UNCHANGED applications
       ELSE /\ applications' = MapDelete(applications, id)
            /\ ret' = Returned("ApplicationRepo.Delete", FALSE)
    /\ UNCHANGED <<agreements, byApplication, portfolios, byOwner, events, now>>

\* domain.NewGovernanceAgreementAggregate: the agreement and its creation event
NewGovernanceAgreementAggregate(id, applicationID, title) ==
    IF id = "" \/ applicationID = "" \/ title = ""
    THEN [err |-> TRUE, val |-> Nil, domainEvents |-> <<>>]
    ELSE [err |-> FALSE,
          val |-> [ZeroAgreement EXCEPT
                     !.ID = id, !.ApplicationID = applicationID, !.Title = title,
                     !.Version = "1.0", !.Status = AgreementDraft,
                     !.CreatedAt = now, !.UpdatedAt = now],
          domainEvents |->
            <<[Type |-> "GovernanceAgreementCreated", AgreementID |-> id,
               ApplicationID |-> applicationID, Title |-> title,
               OccurredAt |-> now]>>]

\* GovernanceService.CreateGovernanceAgreement.  Save stores under cmd.ID
\* whether or not an agreement is stored there already.
CreateGovernanceAgreement(cmd) ==
    LET found == ApplicationRepo_FindByID(cmd.ApplicationID)
        aggregate == NewGovernanceAgreementAggregate(cmd.ID, cmd.ApplicationID,
                                                     cmd.Title)
    IN  /\ call' = [op |-> "CreateGovernanceAgreement", cmd |-> cmd]
        /\ IF found.err \/ aggregate.err
           THEN /\ ret' = Returned("CreateGovernanceAgreement", TRUE)
                /\ UNCHANGED <<agreements, byApplication, events>>
           ELSE /\ Len(events) < MaxEvents
                /\ agreements' = MapPut(agreements, cmd.ID, aggregate.val)
                /\ byApplication' = MapPut(byApplication, cmd.ApplicationID, cmd.ID)
                /\ events' = events \o aggregate.domainEvents
                /\ ret' = [op |-> "CreateGovernanceAgreement", err |-> FALSE,
                           val |-> aggregate.val]
        /\ UNCHANGED <<applications, portfolios, byOwner, now>>

\* The shape of every setter of GovernanceService and DirectionService:
\* FindByID, change the copy, GovernanceAgreementRepositoryMemory.Update
UpdateAgreement(op, cmd, found, agreement) ==
    /\ call' = [op |-> op, cmd |-> cmd]
    /\ IF found.err
       THEN /\ ret' = Returned(op, TRUE)
            /\ UNCHANGED agreements
       ELSE /\ agreements' = MapPut(agreements, agreement.ID, agreement)
            /\ ret' = Returned(op, FALSE)
    /\ UNCHANGED <<applications, byApplication, portfolios, byOwner, events, now>>

UpdateStrategy(cmd) ==
    LET found == AgreementRepo_FindByID(cmd.AgreementID)
    IN  UpdateAgreement("UpdateStrategy", cmd, found,
                        [found.val EXCEPT !.Strategy = cmd.Strategy])

UpdateAcquisition(cmd) ==
    LET found == AgreementRepo_FindByID(cmd.AgreementID)
    IN  UpdateAgreement("UpdateAcquisition", cmd, found,
                        [found.val EXCEPT !.Acquisition = cmd.Acquisition])

UpdatePerformance(cmd) ==
    LET found == AgreementRepo_FindByID(cmd.AgreementID)
    IN  UpdateAgreement("UpdatePerformance", cmd, found,
                        [found.val EXCEPT !.Performance = cmd.Performance])

UpdateConformance(cmd) ==
    LET found == AgreementRepo_FindByID(cmd.AgreementID)
    IN  UpdateAgreement("UpdateConformance", cmd, found,
                        [found.val EXCEPT !.Conformance = cmd.Conformance])

UpdateImplementation(cmd) ==
    LET found == AgreementRepo_FindByID(cmd.AgreementID)
    IN  UpdateAgreement("UpdateImplementation", cmd, found,
                        [found.val EXCEPT !.Implementation = cmd.Implementation])

\* ApproveGovernanceAgreement without its status check
ApproveGovernanceAgreement_Unchecked(cmd) ==
    LET found == AgreementRepo_FindByID(cmd.AgreementID)
    IN  /\ call' = [op |-> "ApproveGovernanceAgreement", cmd |-> cmd]
        /\ IF found.err
           THEN /\ ret' = Returned("ApproveGovernanceAgreement", TRUE)
                /\ UNCHANGED <<agreements, events>>
           ELSE /\ Len(events) < MaxEvents
                /\ agreements' =
                     MapPut(agreements, found.val.ID,
                            [found.val EXCEPT !.Status = AgreementApproved,
                                              !.UpdatedAt = now])
                /\ events' = EventRepo_Save([Type |-> "GovernanceAgreementApproved",
                                             AgreementID |-> cmd.AgreementID,
                                             OccurredAt |-> now])
                /\ ret' = Returned("ApproveGovernanceAgreement", FALSE)
        /\ UNCHANGED <<applications, byApplication, portfolios, byOwner, now>>

\* GovernanceService.ApproveGovernanceAgreement
ApproveGovernanceAgreement(cmd) ==
    LET found == AgreementRepo_FindByID(cmd.AgreementID)
    IN  /\ call' = [op |-> "ApproveGovernanceAgreement", cmd |-> cmd]
        /\ IF found.err \/ found.val.Status # AgreementDraft
           THEN /\ ret' = Returned("ApproveGovernanceAgreement", TRUE)
                /\ UNCHANGED <<agreements, events>>
           ELSE /\ Len(events) < MaxEvents
                /\ agreements' =
                     MapPut(agreements, found.val.ID,
                            [found.val EXCEPT !.Status = AgreementApproved,
                                              !.UpdatedAt = now])
                /\ events' = EventRepo_Save([Type |-> "GovernanceAgreementApproved",
                                             AgreementID |-> cmd.AgreementID,
                                             OccurredAt |-> now])
                /\ ret' = Returned("ApproveGovernanceAgreement", FALSE)
        /\ UNCHANGED <<applications, byApplication, portfolios, byOwner, now>>

\* GovernanceService.ActivateGovernanceAgreement
ActivateGovernanceAgreement(cmd) ==
    LET found == AgreementRepo_FindByID(cmd.AgreementID)
    IN  /\ call' = [op |-> "ActivateGovernanceAgreement", cmd |-> cmd]
        /\ IF found.err \/ found.val.Status # AgreementApproved
           THEN /\ ret' = Returned("ActivateGovernanceAgreement", TRUE)
                /\ UNCHANGED <<agreements, events>>
           ELSE /\ Len(events) < MaxEvents
                /\ agreements' =
                     MapPut(agreements, found.val.ID,
                            [found.val EXCEPT !.Status = AgreementActive,
                                              !.UpdatedAt = now])
                /\ events' = EventRepo_Save([Type |-> "GovernanceAgreementActivated",
                                             AgreementID |-> cmd.AgreementID,
                                             OccurredAt |-> now])
                /\ ret' = Returned("ActivateGovernanceAgreement", FALSE)
        /\ UNCHANGED <<applications, byApplication, portfolios, byOwner, now>>

ActionPending == "pending"

\* The decimal digits
Digits == <<"0", "1", "2", "3", "4", "5", "6", "7", "8", "9">>

RECURSIVE FormatInt(_)
\* fmt.Sprintf("%d", n) for n >= 0, as a sequence of characters
FormatInt(n) ==
    IF n < 10 THEN <<Digits[n + 1]>>
    ELSE FormatInt(n \div 10) \o <<Digits[(n % 10) + 1]>>

\* createActionPlansFromObjectives numbering the plans as the loop index
\* does, from 0
createActionPlansFromObjectives_ZeroBased(objectives) ==
    [i \in 1..Len(objectives) |->
        [ID |-> <<"a", "p", "-">> \o FormatInt(i - 1),
         Name |-> <<"Action Plan for", objectives[i].Name>>,
         Owner |-> "TBD", Deadline |-> objectives[i].Deadline,
         Status |-> ActionPending,
         Actions |-> <<[ID |-> <<"a", "c", "t", "i", "o", "n", "-">>
                                 \o FormatInt(i - 1) \o <<"-", "1">>,
                        Responsible |-> "TBD",
                        Deadline |-> objectives[i].Deadline - 30,
                        Status |-> ActionPending]>>]]

\* DirectionService.createActionPlansFromObjectives: one plan per objective,
\* "ap-1", "ap-2", ... in the order of the objectives (slices are indexed
\* from 1 here, so i stands for the loop's i+1), each with the one action
\* "action-i-1" due thirty days before the deadline
createActionPlansFromObjectives(objectives) ==
    [i \in 1..Len(objectives) |->
        [ID |-> <<"a", "p", "-">> \o FormatInt(i),
         Name |-> <<"Action Plan for", objectives[i].Name>>,
         Owner |-> "TBD", Deadline |-> objectives[i].Deadline,
         Status |-> ActionPending,
         Actions |-> <<[ID |-> <<"a", "c", "t", "i", "o", "n", "-">>
                                 \o FormatInt(i) \o <<"-", "1">>,
                        Responsible |-> "TBD",
                        Deadline |-> objectives[i].Deadline - 30,
                        Status |-> ActionPending]>>]]

\* DirectionService.SetStrategicDirection
SetStrategicDirection(agreementID, director, objectives, initiatives) ==
    LET found == AgreementRepo_FindByID(agreementID)
    IN  UpdateAgreement("SetStrategicDirection",
            [AgreementID |-> agreementID, Director |-> director,
             Objectives |-> objectives, Initiatives |-> initiatives],
            found,
            [found.val EXCEPT
                !.Direct.StrategicDirection.Objectives = objectives,
                !.Direct.StrategicDirection.Initiatives = initiatives,
                !.Direct.LastDirected = now,
                !.Direct.ActionPlans = createActionPlansFromObjectives(objectives)])

\* DirectionService.AllocateResources
AllocateResources(agreementID, budgetAllocations, personnelAllocations) ==
    LET found == AgreementRepo_FindByID(agreementID)
    IN  UpdateAgreement("AllocateResources",
            [AgreementID |-> agreementID, BudgetAllocations |-> budgetAllocations,
             PersonnelAllocations |-> personnelAllocations],
            found,
            [found.val EXCEPT
                !.Direct.ResourceAllocation.BudgetAllocations = budgetAllocations,
                !.Direct.ResourceAllocation.PersonnelAllocations =
                    personnelAllocations,
                !.Direct.LastDirected = now])

\* DirectionService.EstablishPolicies
EstablishPolicies(agreementID, policies, standards, procedures) ==
    LET found == AgreementRepo_FindByID(agreementID)
    IN  UpdateAgreement("EstablishPolicies",
            [AgreementID |-> agreementID, Policies |-> policies,
             Standards |-> standards, Procedures |-> procedures],
            found,
            [found.val EXCEPT
                !.Direct.PolicyFramework.Policies = policies,
                !.Direct.PolicyFramework.Standards = standards,
                !.Direct.PolicyFramework.Procedures = procedures])

\* GovernanceAgreementRepositoryMemory.Save
AgreementRepo_Save(agreement) ==
    /\ agreements' = MapPut(agreements, agreement.ID, agreement)
    /\ byApplication' = MapPut(byApplication, agreement.ApplicationID, agreement.ID)
    /\ call' = [op |-> "AgreementRepo.Save", ID |-> agreement.ID]
    /\ ret' = Returned("AgreementRepo.Save", FALSE)
    /\ UNCHANGED <<applications, portfolios, byOwner, events, now>>

\* GovernanceAgreementRepositoryMemory.Update: the index is left as it is
AgreementRepo_Update(agreement) ==
    /\ call' = [op |-> "AgreementRepo.Update", ID |-> agreement.ID]
    /\ IF agreement.ID \notin DOMAIN agreements
       THEN /\ ret' = Returned("AgreementRepo.Update", TRUE)
            /\ UNCHANGED agreements
       ELSE /\ agreements' = MapPut(agreements, agreement.ID, agreement)
            /\ ret' = Returned("AgreementRepo.Update", FALSE)
    /\ UNCHANGED <<applications, byApplication, portfolios, byOwner, events, now>>

\* GovernanceAgreementRepositoryMemory.Delete: removes the index entry of the
\* deleted agreement's application, whichever agreement it points to
AgreementRepo_Delete(id) ==
    /\ call' = [op |-> "AgreementRepo.Delete", ID |-> id]
    /\ IF id \notin DOMAIN agreements
       THEN /\ ret' = Returned("AgreementRepo.Delete", TRUE)
            /\ UNCHANGED <<agreements, byApplication>>
       ELSE /\ agreements' = MapDelete(agreements, id)
            /\ byApplication' = MapDelete(byApplication, agreements[id].ApplicationID)
            /\ ret' = Returned("AgreementRepo.Delete", FALSE)
    /\ UNCHANGED <<applications, portfolios, byOwner, events, now>>

\* A bound on the length of an owner's index, which grows with every Save
MaxIndexed == 4

\* byOwner[owner], nil when the owner has no entry
OwnerIndex(owner) == IF owner \in DOMAIN byOwner THEN byOwner[owner] ELSE <<>>

\* ApplicationPortfolioRepositoryMemory.Save: stores the portfolio and appends
\* its ID to the owner's index, also when the ID is in the index already
SavePortfolio(portfolio) ==
    /\ Len(OwnerIndex(portfolio.Owner)) < MaxIndexed
    /\ portfolios' = MapPut(portfolios, portfolio.ID, portfolio)
    /\ byOwner' = MapPut(byOwner, portfolio.Owner,
                         Append(OwnerIndex(portfolio.Owner), portfolio.ID))

RECURSIVE CollectStored(_, _)
\* The loop of FindByOwner: the stored portfolios of the IDs from the i-th
\* on, in the order of the index, an ID that is not stored being passed over
CollectStored(portfolioIDs, i) ==
    IF i > Len(portfolioIDs) THEN <<>>
    ELSE IF portfolioIDs[i] \in DOMAIN portfolios
    THEN <<portfolios[portfolioIDs[i]]>> \o CollectStored(portfolioIDs, i + 1)
    ELSE CollectStored(portfolioIDs, i + 1)

\* ApplicationPortfolioRepositoryMemory.FindByOwner; it returns no error
PortfolioRepo_FindByOwner(owner) ==
    IF owner \notin DOMAIN byOwner THEN <<>>
    ELSE CollectStored(byOwner[owner], 1)

\* ApplicationPortfolioRepositoryMemory.Save, called as the test program does
PortfolioRepo_Save(portfolio) ==
    /\ SavePortfolio(portfolio)
    /\ call' = [op |-> "PortfolioRepo.Save", ID |-> portfolio.ID]
    /\ ret' = Returned("PortfolioRepo.Save", FALSE)
    /\ UNCHANGED <<applications, agreements, byApplication, events, now>>

\* The index of the first member with this ID, 0 when there is none
IndexOf(apps, appID) ==
    IF \E i \in 1..Len(apps) : apps[i].ID = appID
    THEN CHOOSE i \in 1..Len(apps) :
            /\ apps[i].ID = appID
            /\ \A j \in 1..(i - 1) : apps[j].ID # appID
    ELSE 0

\* ApplicationPortfolioRepositoryMemory.AddApplication without the
\* membership test
PortfolioRepo_AddApplication_Unchecked(portfolioID, appID) ==
    LET found == PortfolioRepo_FindByID(portfolioID)
    IN  /\ call' = [op |-> "PortfolioRepo.AddApplication",
                    PortfolioID |-> portfolioID, ApplicationID |-> appID]
        /\ IF found.err
           THEN /\ ret' = Returned("PortfolioRepo.AddApplication", TRUE)
                /\ UNCHANGED portfolios
           ELSE /\ portfolios' =
                     MapPut(portfolios, portfolioID,
                            [found.val EXCEPT !.Applications =
                                Append(@, [ZeroApplication EXCEPT !.ID = appID])])
                /\ ret' = Returned("PortfolioRepo.AddApplication", FALSE)
        /\ UNCHANGED <<applications, agreements, byApplication, byOwner, events, now>>

\* ApplicationPortfolioRepositoryMemory.AddApplication: the member added is a
\* placeholder that has the ID only
PortfolioRepo_AddApplication(portfolioID, appID) ==
    LET found == PortfolioRepo_FindByID(portfolioID)
    IN  /\ call' = [op |-> "PortfolioRepo.AddApplication",
                    PortfolioID |-> portfolioID, ApplicationID |-> appID]
        /\ IF found.err \/ IndexOf(found.val.Applications, appID) # 0
           THEN /\ ret' = Returned("PortfolioRepo.AddApplication", TRUE)
                /\ UNCHANGED portfolios
           ELSE /\ portfolios' =
                     MapPut(portfolios, portfolioID,
                            [found.val EXCEPT !.Applications =
                                Append(@, [ZeroApplication EXCEPT !.ID = appID])])
                /\ ret' = Returned("PortfolioRepo.AddApplication", FALSE)
        /\ UNCHANGED <<applications, agreements, byApplication, byOwner, events, now>>

\* ApplicationPortfolioRepositoryMemory.RemoveApplication
PortfolioRepo_RemoveApplication(portfolioID, appID) ==
    LET found == PortfolioRepo_FindByID(portfolioID)
        i     == IndexOf(found.val.Applications, appID)
    IN  /\ call' = [op |-> "PortfolioRepo.RemoveApplication",
                    PortfolioID |-> portfolioID, ApplicationID |-> appID]
        /\ IF found.err \/ i = 0
           THEN /\ ret' = Returned("PortfolioRepo.RemoveApplication", TRUE)
                /\ UNCHANGED portfolios
           ELSE /\ portfolios' =
                     MapPut(portfolios, portfolioID,
                            [found.val EXCEPT !.Applications = RemoveAt(@, i)])
                /\ ret' = Returned("PortfolioRepo.RemoveApplication", FALSE)
        /\ UNCHANGED <<applications, agreements, byApplication, byOwner, events, now>>

\* domain.NewApplicationPortfolioAggregate: the portfolio and its creation event
NewApplicationPortfolioAggregate(id, name, description, owner) ==
    IF id = "" \/ name = "" \/ owner = ""
    THEN [err |-> TRUE, val |-> Nil, domainEvents |-> <<>>]
    ELSE [err |-> FALSE,
          val |-> [ZeroPortfolio EXCEPT
                     !.ID = id, !.Name = name, !.Description = description,
                     !.Owner = owner, !.CreatedAt = now, !.UpdatedAt = now],
          domainEvents |->
            <<[Type |-> "PortfolioCreated", PortfolioID |-> id, Name |-> name,
               Owner |-> owner, OccurredAt |-> now]>>]

\* PortfolioService.CreatePortfolio.  Save stores under cmd.ID whether or not
\* a portfolio is stored there already.
CreatePortfolio(cmd) ==
    LET aggregate == NewApplicationPortfolioAggregate(cmd.ID, cmd.Name,
                                                      cmd.Description, cmd.Owner)
    IN  /\ call' = [op |-> "CreatePortfolio", cmd |-> cmd]
        /\ IF aggregate.err
           THEN /\ ret' = Returned("CreatePortfolio", TRUE)
                /\ UNCHANGED <<portfolios, byOwner, events>>
           ELSE /\ Len(events) < MaxEvents
                /\ SavePortfolio(aggregate.val)
                /\ events' = events \o aggregate.domainEvents
                /\ ret' = [op |-> "CreatePortfolio", err |-> FALSE,
                           val |-> aggregate.val]
        /\ UNCHANGED <<applications, agreements, byApplication, now>>

\* Application.Validate: whether it returns an error
Application_Validate(app) == app.ID = "" \/ app.Name = ""

\* ApplicationPortfolio.AddApplication: the error and the receiver after the
\* call
ApplicationPortfolio_AddApplication(ap, app) ==
    IF Application_Validate(app) THEN [err |-> TRUE, val |-> ap]
    ELSE IF IndexOf(ap.Applications, app.ID) # 0 THEN [err |-> TRUE, val |-> ap]
    ELSE [err |-> FALSE,
          val |-> [ap EXCEPT !.Applications = Append(@, app), !.UpdatedAt = now]]

\* A call of ApplicationPortfolio.AddApplication on a portfolio the caller
\* holds; no store is written
CallPortfolioAddApplication(ap, app) ==
    /\ call' = [op |-> "ApplicationPortfolio.AddApplication", ap |-> ap,
                app |-> app]
    /\ ret' = [op |-> "ApplicationPortfolio.AddApplication"]
                @@ ApplicationPortfolio_AddApplication(ap, app)
    /\ UNCHANGED <<stores, now>>

\* PortfolioService.AddApplicationToPortfolio without its membership test
AddApplicationToPortfolio_Unchecked(cmd) ==
    LET app       == ApplicationRepo_FindByID(cmd.ApplicationID)
        agreement == AgreementRepo_FindByApplicationID(cmd.ApplicationID)
        portfolio == PortfolioRepo_FindByID(cmd.PortfolioID)
    IN  /\ call' = [op |-> "AddApplicationToPortfolio", cmd |-> cmd]
        /\ IF app.err \/ agreement.err \/ portfolio.err
           THEN /\ ret' = Returned("AddApplicationToPortfolio", TRUE)
                /\ UNCHANGED <<portfolios, byOwner, events>>
           ELSE /\ Len(events) < MaxEvents
                /\ SavePortfolio([portfolio.val EXCEPT
                                    !.Applications = Append(@, app.val),
                                    !.UpdatedAt = now])
                /\ events' =
                     EventRepo_Save([Type |-> "ApplicationAddedToPortfolio",
                                     PortfolioID |-> cmd.PortfolioID,
                                     ApplicationID |-> cmd.ApplicationID,
                                     ApplicationName |-> app.val.Name,
                                     GovernanceAgreementID |->
                                         app.val.GovernanceAgreementID,
                                     OccurredAt |-> now])
                /\ ret' = Returned("AddApplicationToPortfolio", FALSE)
        /\ UNCHANGED <<applications, agreements, byApplication, now>>

\* PortfolioService.AddApplicationToPortfolio: the member added is a copy of
\* the stored application
AddApplicationToPortfolio(cmd) ==
    LET app       == ApplicationRepo_FindByID(cmd.ApplicationID)
        agreement == AgreementRepo_FindByApplicationID(cmd.ApplicationID)
        portfolio == PortfolioRepo_FindByID(cmd.PortfolioID)
    IN  /\ call' = [op |-> "AddApplicationToPortfolio", cmd |-> cmd]
        /\ IF \/ app.err
              \/ agreement.err
              \/ portfolio.err
              \/ IndexOf(portfolio.val.Applications, cmd.ApplicationID) # 0
           THEN /\ ret' = Returned("AddApplicationToPortfolio", TRUE)
                /\ UNCHANGED <<portfolios, byOwner, events>>
           ELSE /\ Len(events) < MaxEvents
                /\ SavePortfolio([portfolio.val EXCEPT
                                    !.Applications = Append(@, app.val),
                                    !.UpdatedAt = now])
                /\ events' =
                     EventRepo_Save([Type |-> "ApplicationAddedToPortfolio",
                                     PortfolioID |-> cmd.PortfolioID,
                                     ApplicationID |-> cmd.ApplicationID,
                                     ApplicationName |-> app.val.Name,
                                     GovernanceAgreementID |->
                                         app.val.GovernanceAgreementID,
                                     OccurredAt |-> now])
                /\ ret' = Returned("AddApplicationToPortfolio", FALSE)
        /\ UNCHANGED <<applications, agreements, byApplication, now>>

\* PortfolioService.RemoveApplicationFromPortfolio
RemoveApplicationFromPortfolio(cmd) ==
    LET portfolio == PortfolioRepo_FindByID(cmd.PortfolioID)
        i         == IndexOf(portfolio.val.Applications, cmd.ApplicationID)
    IN  /\ call' = [op |-> "RemoveApplicationFromPortfolio", cmd |-> cmd]
        /\ IF portfolio.err \/ i = 0
           THEN /\ ret' = Returned("RemoveApplicationFromPortfolio", TRUE)
                /\ UNCHANGED <<portfolios, byOwner, events>>
           ELSE /\ Len(events) < MaxEvents
                /\ SavePortfolio([portfolio.val EXCEPT
                                    !.Applications = RemoveAt(@, i),
                                    !.UpdatedAt = now])
                /\ events' =
                     EventRepo_Save([Type |-> "ApplicationRemovedFromPortfolio",
                                     PortfolioID |-> cmd.PortfolioID,
                                     ApplicationID |-> cmd.ApplicationID,
                                     ApplicationName |->
                                         portfolio.val.Applications[i].Name,
                                     OccurredAt |-> now])
                /\ ret' = Returned("RemoveApplicationFromPortfolio", FALSE)
        /\ UNCHANGED <<applications, agreements, byApplication, now>>

\* PortfolioService.UpdatePortfolio
UpdatePortfolio(cmd) ==
    LET portfolio == PortfolioRepo_FindByID(cmd.ID)
    IN  /\ call' = [op |-> "UpdatePortfolio", cmd |-> cmd]
        /\ IF portfolio.err
           THEN /\ ret' = Returned("UpdatePortfolio", TRUE)
                /\ UNCHANGED <<portfolios, byOwner>>
           ELSE /\ SavePortfolio([portfolio.val EXCEPT
                                    !.Name = cmd.Name,
                                    !.Description = cmd.Description,
                                    !.UpdatedAt = now])
                /\ ret' = Returned("UpdatePortfolio", FALSE)
        /\ UNCHANGED <<applications, agreements, byApplication, events, now>>

\* PortfolioService.DeletePortfolio, with ApplicationPortfolioRepositoryMemory.
\* Delete, which takes the first occurrence of the ID out of the owner's index
DeletePortfolio(portfolioID) ==
    LET portfolio == PortfolioRepo_FindByID(portfolioID)
        index     == OwnerIndex(portfolio.val.Owner)
        i         == IF \E k \in 1..Len(index) : index[k] = portfolioID
                     THEN CHOOSE k \in 1..Len(index) :
                            /\ index[k] = portfolioID
                            /\ \A j \in 1..(k - 1) : index[j] # portfolioID
                     ELSE 0
    IN  /\ call' = [op |-> "DeletePortfolio", PortfolioID |-> portfolioID]
        /\ IF portfolio.err \/ Len(portfolio.val.Applications) > 0
           THEN /\ ret' = Returned("DeletePortfolio", TRUE)
                /\ UNCHANGED <<portfolios, byOwner>>
           ELSE /\ portfolios' = MapDelete(portfolios, portfolioID)
                /\ byOwner' = IF i = 0
                              THEN byOwner
                              ELSE MapPut(byOwner, portfolio.val.Owner,
                                          RemoveAt(index, i))
                /\ ret' = Returned("DeletePortfolio", FALSE)
        /\ UNCHANGED <<applications, agreements, byApplication, events, now>>

-----------------------------------------------------------------------------
(* The tools of the MCP server.  The arguments of a call are a map from    *)
(* names to JSON values; a JSON value is a record whose kind says whether  *)
(* it is a string.                                                         *)

JSONString(s) == [kind |-> "string", str |-> s]

JSONNumber(n) == [kind |-> "number", num |-> n]

\* v, ok := args[key].(string)
StringArg(args, key) ==
    IF key \in DOMAIN args /\ args[key].kind = "string"
    THEN [val |-> args[key].str, ok |-> TRUE]
    ELSE [val |-> "", ok |-> FALSE]

\* Every map from some of the keys to the values
ToolArgs(keys, values) == UNION {[present -> values] : present \in SUBSET keys}

\* "1.0.0", the version createApplication gives an application that comes
\* without one
DefaultVersion == <<"1", ".", "0", ".", "0">>

\* MCPServer.createApplication
MCP_createApplication(args) ==
    LET version == StringArg(args, "version")
        app == [ZeroApplication EXCEPT
                  !.ID = StringArg(args, "id").val,
                  !.Name = StringArg(args, "name").val,
                  !.Description = StringArg(args, "description").val,
                  !.Version = IF version.ok THEN version.val ELSE DefaultVersion,
                  !.Status = StatusActive,
                  !.CreatedAt = now,
                  !.UpdatedAt = now]
    IN  /\ applications' = MapPut(applications, app.ID, app)
        /\ call' = [op |-> "create_application", args |-> args]
        /\ ret' = Returned("create_application", FALSE)
        /\ UNCHANGED <<agreements, byApplication, portfolios, byOwner, events, now>>

\* MCPServer.createPortfolio
MCP_createPortfolio(args) ==
    CreatePortfolio([ID |-> StringArg(args, "id").val,
                     Name |-> StringArg(args, "name").val,
                     Description |-> StringArg(args, "description").val,
                     Owner |-> StringArg(args, "owner").val])

\* MCPServer.addToPortfolio
MCP_addToPortfolio(args) ==
    AddApplicationToPortfolio(
        [PortfolioID |-> StringArg(args, "portfolio_id").val,
         ApplicationID |-> StringArg(args, "application_id").val])

\* MCPServer.createGovernanceAgreement
MCP_createGovernanceAgreement(args) ==
    CreateGovernanceAgreement([ID |-> StringArg(args, "id").val,
                               ApplicationID |->
                                   StringArg(args, "application_id").val,
                               Title |-> StringArg(args, "title").val])

-----------------------------------------------------------------------------
(* The services over an event repository that can fail.  The services hold *)
(* a domain.DomainEventRepository, whose Save returns an error; the one in *)
(* memory never does.  A Save that fails is taken to append nothing.       *)

EventSaveOutcomes == {"none", "saved", "failed"}

\* CreateGovernanceAgreement over a DomainEventRepository whose Save
\* returns what `outcome` says; "none" when the call does not get to saving
\* an event
CreateGovernanceAgreement_EventRepo(cmd, outcome) ==
    LET found == ApplicationRepo_FindByID(cmd.ApplicationID)
        aggregate == NewGovernanceAgreementAggregate(cmd.ID, cmd.ApplicationID,
                                                     cmd.Title)
    IN  /\ IF found.err \/ aggregate.err
           THEN /\ outcome = "none"
                /\ ret' = Returned("CreateGovernanceAgreement", TRUE)
                /\ UNCHANGED <<agreements, byApplication, events>>
           ELSE /\ outcome # "none"
                /\ Len(events) < MaxEvents
                /\ agreements' = MapPut(agreements, cmd.ID, aggregate.val)
                /\ byApplication' = MapPut(byApplication, cmd.ApplicationID, cmd.ID)
                /\ events' = IF outcome = "failed" THEN events
                             ELSE events \o aggregate.domainEvents
                /\ ret' = [op |-> "CreateGovernanceAgreement", err |-> FALSE,
                           val |-> aggregate.val]
        /\ call' = [op |-> "CreateGovernanceAgreement", cmd |-> cmd,
                    eventSave |-> outcome]
        /\ UNCHANGED <<applications, portfolios, byOwner, now>>

\* ApproveGovernanceAgreement returning the error of the event repository
ApproveGovernanceAgreement_EventRepo_Propagating(cmd, outcome) ==
    LET found == AgreementRepo_FindByID(cmd.AgreementID)
    IN  /\ IF found.err \/ found.val.Status # AgreementDraft
           THEN /\ outcome = "none"
                /\ ret' = Returned("ApproveGovernanceAgreement", TRUE)
                /\ UNCHANGED <<agreements, events>>
           ELSE /\ outcome # "none"
                /\ Len(events) < MaxEvents
                /\ agreements' =
                     MapPut(agreements, found.val.ID,
                            [found.val EXCEPT !.Status = AgreementApproved,
                                              !.UpdatedAt = now])
                /\ events' = IF outcome = "failed" THEN events ELSE
                     EventRepo_Save([Type |-> "GovernanceAgreementApproved",
                                             AgreementID |-> cmd.AgreementID,
                                             OccurredAt |-> now])
                /\ ret' = Returned("ApproveGovernanceAgreement",
                                   outcome = "failed")
        /\ call' = [op |-> "ApproveGovernanceAgreement", cmd |-> cmd,
                    eventSave |-> outcome]
        /\ UNCHANGED <<applications, byApplication, portfolios, byOwner, now>>

\* ApproveGovernanceAgreement over a DomainEventRepository whose Save
\* returns what `outcome` says; "none" when the call does not get to saving
\* an event
ApproveGovernanceAgreement_EventRepo(cmd, outcome) ==
    LET found == AgreementRepo_FindByID(cmd.AgreementID)
    IN  /\ IF found.err \/ found.val.Status # AgreementDraft
           THEN /\ outcome = "none"
                /\ ret' = Returned("ApproveGovernanceAgreement", TRUE)
                /\ UNCHANGED <<agreements, events>>
           ELSE /\ outcome # "none"
                /\ Len(events) < MaxEvents
                /\ agreements' =
                     MapPut(agreements, found.val.ID,
                            [found.val EXCEPT !.Status = AgreementApproved,
                                              !.UpdatedAt = now])
                /\ events' = IF outcome = "failed" THEN events ELSE
                     EventRepo_Save([Type |-> "GovernanceAgreementApproved",
                                             AgreementID |-> cmd.AgreementID,
                                             OccurredAt |-> now])
                /\ ret' = Returned("ApproveGovernanceAgreement", FALSE)
        /\ call' = [op |-> "ApproveGovernanceAgreement", cmd |-> cmd,
                    eventSave |-> outcome]
        /\ UNCHANGED <<applications, byApplication, portfolios, byOwner, now>>

\* ActivateGovernanceAgreement over a DomainEventRepository whose Save
\* returns what `outcome` says; "none" when the call does not get to saving
\* an event
ActivateGovernanceAgreement_EventRepo(cmd, outcome) ==
    LET found == AgreementRepo_FindByID(cmd.AgreementID)
    IN  /\ IF found.err \/ found.val.Status # AgreementApproved
           THEN /\ outcome = "none"
                /\ ret' = Returned("ActivateGovernanceAgreement", TRUE)
                /\ UNCHANGED <<agreements, events>>
           ELSE /\ outcome # "none"
                /\ Len(events) < MaxEvents
                /\ agreements' =
                     MapPut(agreements, found.val.ID,
                            [found.val EXCEPT !.Status = AgreementActive,
                                              !.UpdatedAt = now])
                /\ events' = IF outcome = "failed" THEN events ELSE
                     EventRepo_Save([Type |-> "GovernanceAgreementActivated",
                                             AgreementID |-> cmd.AgreementID,
                                             OccurredAt |-> now])
                /\ ret' = Returned("ActivateGovernanceAgreement", FALSE)
        /\ call' = [op |-> "ActivateGovernanceAgreement", cmd |-> cmd,
                    eventSave |-> outcome]
        /\ UNCHANGED <<applications, byApplication, portfolios, byOwner, now>>

\* CreatePortfolio over a DomainEventRepository whose Save
\* returns what `outcome` says; "none" when the call does not get to saving
\* an event
CreatePortfolio_EventRepo(cmd, outcome) ==
    LET aggregate == NewApplicationPortfolioAggregate(cmd.ID, cmd.Name,
                                                      cmd.Description, cmd.Owner)
    IN  /\ IF aggregate.err
           THEN /\ outcome = "none"
                /\ ret' = Returned("CreatePortfolio", TRUE)
                /\ UNCHANGED <<portfolios, byOwner, events>>
           ELSE /\ outcome # "none"
                /\ Len(events) < MaxEvents
                /\ SavePortfolio(aggregate.val)
                /\ events' = IF outcome = "failed" THEN events
                             ELSE events \o aggregate.domainEvents
                /\ ret' = [op |-> "CreatePortfolio", err |-> FALSE,
                           val |-> aggregate.val]
        /\ call' = [op |-> "CreatePortfolio", cmd |-> cmd,
                    eventSave |-> outcome]
        /\ UNCHANGED <<applications, agreements, byApplication, now>>

\* AddApplicationToPortfolio over a DomainEventRepository whose Save
\* returns what `outcome` says; "none" when the call does not get to saving
\* an event
AddApplicationToPortfolio_EventRepo(cmd, outcome) ==
    LET app       == ApplicationRepo_FindByID(cmd.ApplicationID)
        agreement == AgreementRepo_FindByApplicationID(cmd.ApplicationID)
        portfolio == PortfolioRepo_FindByID(cmd.PortfolioID)
    IN  /\ IF \/ app.err
              \/ agreement.err
              \/ portfolio.err
              \/ IndexOf(portfolio.val.Applications, cmd.ApplicationID) # 0
           THEN /\ outcome = "none"
                /\ ret' = Returned("AddApplicationToPortfolio", TRUE)
                /\ UNCHANGED <<portfolios, byOwner, events>>
           ELSE /\ outcome # "none"
                /\ Len(events) < MaxEvents
                /\ SavePortfolio([portfolio.val EXCEPT
                                    !.Applications = Append(@, app.val),
                                    !.UpdatedAt = now])
                /\ events' = IF outcome = "failed" THEN events ELSE
                     EventRepo_Save([Type |-> "ApplicationAddedToPortfolio",
                                     PortfolioID |-> cmd.PortfolioID,
                                     ApplicationID |-> cmd.ApplicationID,
                                     ApplicationName |-> app.val.Name,
                                     GovernanceAgreementID |->
                                         app.val.GovernanceAgreementID,
                                     OccurredAt |-> now])
                /\ ret' = Returned("AddApplicationToPortfolio", FALSE)
        /\ call' = [op |-> "AddApplicationToPortfolio", cmd |-> cmd,
                    eventSave |-> outcome]
        /\ UNCHANGED <<applications, agreements, byApplication, now>>

\* RemoveApplicationFromPortfolio over a DomainEventRepository whose Save
\* returns what `outcome` says; "none" when the call does not get to saving
\* an event
RemoveApplicationFromPortfolio_EventRepo(cmd, outcome) ==
    LET portfolio == PortfolioRepo_FindByID(cmd.PortfolioID)
        i         == IndexOf(portfolio.val.Applications, cmd.ApplicationID)
    IN  /\ IF portfolio.err \/ i = 0
           THEN /\ outcome = "none"
                /\ ret' = Returned("RemoveApplicationFromPortfolio", TRUE)
                /\ UNCHANGED <<portfolios, byOwner, events>>
           ELSE /\ outcome # "none"
                /\ Len(events) < MaxEvents
                /\ SavePortfolio([portfolio.val EXCEPT
                                    !.Applications = RemoveAt(@, i),
                                    !.UpdatedAt = now])
                /\ events' = IF outcome = "failed" THEN events ELSE
                     EventRepo_Save([Type |-> "ApplicationRemovedFromPortfolio",
                                     PortfolioID |-> cmd.PortfolioID,
                                     ApplicationID |-> cmd.ApplicationID,
                                     ApplicationName |->
                                         portfolio.val.Applications[i].Name,
                                     OccurredAt |-> now])
                /\ ret' = Returned("RemoveApplicationFromPortfolio", FALSE)
        /\ call' = [op |-> "RemoveApplicationFromPortfolio", cmd |-> cmd,
                    eventSave |-> outcome]
        /\ UNCHANGED <<applications, agreements, byApplication, now>>

-----------------------------------------------------------------------------
(* MonitoringService.  A float64 with one decimal place is held in tenths. *)
(* The repositories of the service are arguments of a call: Nil for a      *)
(* repository that is not configured, else what its methods return.        *)

\* The float64 whole.tenth
Tenths(whole, tenth) == 10 * whole + tenth

\* The two measurements MonitorKPIs makes up when it has no repositories
DemoMeasurements ==
    <<[KPIID |-> "kpi-001", Value |-> Tenths(95, 5), Target |-> Tenths(100, 0),
       Achieved |-> FALSE, MeasuredAt |-> now, Notes |-> "Demo KPI measurement"],
      [KPIID |-> "kpi-002", Value |-> Tenths(99, 2), Target |-> Tenths(98, 0),
       Achieved |-> TRUE, MeasuredAt |-> now, Notes |-> "Demo KPI measurement"]>>

\* MonitoringService.isKPITargetAchieved
isKPITargetAchieved(kpi, measurement) ==
    IF kpi.Category = "efficiency" THEN measurement.Value <= kpi.Target
    ELSE measurement.Value >= kpi.Target

\* The loop body of MonitorKPIs: the latest measurement of the KPI, or one
\* of value 0 when there is none, with Achieved set
MeasureKPI(kpi, measurementRepo) ==
    LET measurement ==
            IF kpi.ID \in DOMAIN measurementRepo.latest
            THEN measurementRepo.latest[kpi.ID]
            ELSE [KPIID |-> kpi.ID, Value |-> 0, Target |-> kpi.Target,
                  Achieved |-> FALSE, MeasuredAt |-> now,
                  Notes |-> "No measurement available"]
    IN  [measurement EXCEPT !.Achieved = isKPITargetAchieved(kpi, measurement)]

\* MonitorKPIs looking at its repositories before it looks for the agreement
MonitorKPIs_RepositoriesFirst(agreementID, kpiRepo, measurementRepo) ==
    IF kpiRepo.nil \/ measurementRepo.nil
    THEN [err |-> FALSE, val |-> DemoMeasurements]
    ELSE IF AgreementRepo_FindByID(agreementID).err \/ kpiRepo.err
    THEN [err |-> TRUE, val |-> <<>>]
    ELSE [err |-> FALSE,
          val |-> [i \in 1..Len(kpiRepo.kpis) |->
                      MeasureKPI(kpiRepo.kpis[i], measurementRepo)]]

\* MonitoringService.MonitorKPIs; a nil slice is the empty sequence
MonitorKPIs(agreementID, kpiRepo, measurementRepo) ==
    IF AgreementRepo_FindByID(agreementID).err
    THEN [err |-> TRUE, val |-> <<>>]
    ELSE IF kpiRepo.nil \/ measurementRepo.nil
    THEN [err |-> FALSE, val |-> DemoMeasurements]
    ELSE IF kpiRepo.err
    THEN [err |-> TRUE, val |-> <<>>]
    ELSE [err |-> FALSE,
          val |-> [i \in 1..Len(kpiRepo.kpis) |->
                      MeasureKPI(kpiRepo.kpis[i], measurementRepo)]]

\* A call of MonitorKPIs
CallMonitorKPIs(agreementID, kpiRepo, measurementRepo) ==
    /\ call' = [op |-> "MonitorKPIs", agreementID |-> agreementID,
                kpiRepo |-> kpiRepo, measurementRepo |-> measurementRepo,
                at |-> now]
    /\ ret' = [op |-> "MonitorKPIs"]
                @@ MonitorKPIs(agreementID, kpiRepo, measurementRepo)
    /\ UNCHANGED <<stores, now>>

\* A probability, a risk value and a threshold are float64s held in
\* hundredths.  The products and comparisons below are exact for them: a
\* product p * w that meets a threshold exactly has a p that is a multiple of
\* 1/4, 1/2 or 1, which float64 holds exactly.
Hundredths(whole, hundredth) == 100 * whole + hundredth

ImpactLow == "low"
ImpactMedium == "medium"
ImpactHigh == "high"
ImpactCritical == "critical"

RiskStatusNormal == "normal"
RiskStatusWarning == "warning"
RiskStatusCritical == "critical"

\* MonitoringService.convertImpactToNumeric
convertImpactToNumeric(impact) ==
    CASE impact = ImpactLow      -> 1
      [] impact = ImpactMedium   -> 2
      [] impact = ImpactHigh     -> 3
      [] impact = ImpactCritical -> 4
      [] OTHER                   -> 1

\* getRiskThreshold giving the level medium the threshold of the level low
getRiskThreshold_MediumAsLow(level) ==
    CASE level = RiskHigh     -> Hundredths(8, 0)
      [] level = RiskCritical -> Hundredths(12, 0)
      [] OTHER                -> Hundredths(2, 0)

\* MonitoringService.getRiskThreshold
getRiskThreshold(level) ==
    CASE level = RiskLow      -> Hundredths(2, 0)
      [] level = RiskMedium   -> Hundredths(4, 0)
      [] level = RiskHigh     -> Hundredths(8, 0)
      [] level = RiskCritical -> Hundredths(12, 0)
      [] OTHER                -> Hundredths(2, 0)

\* determineRiskStatus comparing with the threshold only
determineRiskStatus_OneThreshold(risk) ==
    LET currentValue == risk.Probability * convertImpactToNumeric(risk.Impact)
        threshold    == getRiskThreshold(risk.Level)
    IN  IF currentValue >= threshold THEN RiskStatusWarning
        ELSE RiskStatusNormal

\* MonitoringService.determineRiskStatus; currentValue >= threshold*1.5 is
\* 2*currentValue >= 3*threshold
determineRiskStatus(risk) ==
    LET currentValue == risk.Probability * convertImpactToNumeric(risk.Impact)
        threshold    == getRiskThreshold(risk.Level)
    IN  IF 2 * currentValue >= 3 * threshold THEN RiskStatusCritical
        ELSE IF currentValue >= threshold THEN RiskStatusWarning
        ELSE RiskStatusNormal

\* The indicators MonitorRisks makes up when it has no risk repository
DemoRiskIndicators ==
    <<[Name |-> "Technical Debt", Value |-> Hundredths(75, 0),
       Threshold |-> Hundredths(80, 0), Status |-> RiskStatusWarning],
      [Name |-> "Security Vulnerabilities", Value |-> Hundredths(25, 0),
       Threshold |-> Hundredths(50, 0), Status |-> RiskStatusNormal]>>

\* MonitoringService.MonitorRisks; the agreement is not looked up
MonitorRisks(agreementID, riskRepo) ==
    IF riskRepo.nil
    THEN [err |-> FALSE,
          val |-> [RiskIndicators |-> DemoRiskIndicators, RiskHeatMaps |-> <<>>,
                   MitigationTracking |-> <<>>]]
    ELSE IF riskRepo.err THEN [err |-> TRUE, val |-> Nil]
    ELSE [err |-> FALSE,
          val |-> [RiskIndicators |->
                      [i \in 1..Len(riskRepo.risks) |->
                          LET risk == riskRepo.risks[i]
                          IN  [Name |-> risk.Name,
                               Value |-> risk.Probability
                                         * convertImpactToNumeric(risk.Impact),
                               Threshold |-> getRiskThreshold(risk.Level),
                               Status |-> determineRiskStatus(risk)]],
                   RiskHeatMaps |-> <<>>,
                   MitigationTracking |-> <<>>]]

\* A call of MonitorRisks
CallMonitorRisks(agreementID, riskRepo) ==
    /\ call' = [op |-> "MonitorRisks", agreementID |-> agreementID,
                riskRepo |-> riskRepo]
    /\ ret' = [op |-> "MonitorRisks"] @@ MonitorRisks(agreementID, riskRepo)
    /\ UNCHANGED <<stores, now>>

-----------------------------------------------------------------------------
(* Concurrent calls.  In the specifications of this part `call` and `ret`  *)
(* are functions of the goroutine: call[g] is the call g is in, with the   *)
(* place it has reached (pc) and its local variables, ret[g] what its last *)
(* call returned.  A step is what a goroutine does between two places      *)
(* where another goroutine can run: one repository call under the          *)
(* repository's lock, or one read or write of memory shared without a lock.*)

Idle == [op |-> "none", pc |-> "idle"]

\* g starts DomainEventRepositoryMemory.Save(event)
EventSave_Begin(g, event) ==
    /\ call[g].pc = "idle"
    /\ call' = [call EXCEPT ![g] = [op |-> "EventRepo.Save", pc |-> "load",
                                    event |-> event]]
    /\ UNCHANGED <<stores, now, ret>>

\* append(r.events, event) reads r.events; no lock is held
EventSave_Load(g) ==
    /\ call[g].op = "EventRepo.Save"
    /\ call[g].pc = "load"
    /\ call' = [call EXCEPT ![g] = [op |-> "EventRepo.Save", pc |-> "store",
                                    event |-> call[g].event, loaded |-> events]]
    /\ UNCHANGED <<stores, now, ret>>

\* r.events = ... writes the slice read earlier with the event appended, and
\* Save returns nil
EventSave_Store(g) ==
    /\ call[g].op = "EventRepo.Save"
    /\ call[g].pc = "store"
    /\ events' = Append(call[g].loaded, call[g].event)
    /\ call' = [call EXCEPT ![g] = [op |-> "EventRepo.Save", pc |-> "done",
                                    event |-> call[g].event]]
    /\ ret' = [ret EXCEPT ![g] = Returned("EventRepo.Save", FALSE)]
    /\ UNCHANGED <<applications, agreements, byApplication, portfolios,
                   byOwner, now>>

\* g starts ApproveGovernanceAgreement or ActivateGovernanceAgreement
StatusChange_Begin(g, op, cmd) ==
    /\ call[g].pc = "idle"
    /\ call' = [call EXCEPT ![g] = [op |-> op, pc |-> "find", cmd |-> cmd]]
    /\ UNCHANGED <<stores, now, ret>>

\* agreementRepo.FindByID under the store's lock, then the status check on
\* the copy it returned and the new status set in the copy
StatusChange_Find(g, op, from, to) ==
    LET found == AgreementRepo_FindByID(call[g].cmd.AgreementID)
    IN  /\ call[g].op = op
        /\ call[g].pc = "find"
        /\ IF found.err \/ found.val.Status # from
           THEN /\ call' = [call EXCEPT ![g] = [op |-> op, pc |-> "done",
                                                cmd |-> call[g].cmd]]
                /\ ret' = [ret EXCEPT ![g] = Returned(op, TRUE)]
           ELSE /\ call' = [call EXCEPT ![g] =
                              [op |-> op, pc |-> "update", cmd |-> call[g].cmd,
                               agreement |-> [found.val EXCEPT !.Status = to,
                                                               !.UpdatedAt = now]]]
                /\ UNCHANGED ret
        /\ UNCHANGED <<stores, now>>

\* agreementRepo.Update under the store's lock: the copy replaces what is
\* stored
StatusChange_Update(g) ==
    LET agreement == call[g].agreement
    IN  /\ call[g].op \in {"ApproveGovernanceAgreement",
                           "ActivateGovernanceAgreement"}
        /\ call[g].pc = "update"
        /\ IF agreement.ID \notin DOMAIN agreements
           THEN /\ call' = [call EXCEPT ![g] = [op |-> call[g].op, pc |-> "done",
                                                cmd |-> call[g].cmd]]
                /\ ret' = [ret EXCEPT ![g] = Returned(call[g].op, TRUE)]
                /\ UNCHANGED agreements
           ELSE /\ agreements' = MapPut(agreements, agreement.ID, agreement)
                /\ call' = [call EXCEPT ![g] = [op |-> call[g].op,
                                                pc |-> "publish",
                                                cmd |-> call[g].cmd]]
                /\ UNCHANGED ret
        /\ UNCHANGED <<applications, byApplication, portfolios, byOwner,
                       events, now>>

\* eventRepo.Save of the event of the operation, and return nil
StatusChange_Publish(g) ==
    /\ call[g].op \in {"ApproveGovernanceAgreement", "ActivateGovernanceAgreement"}
    /\ call[g].pc = "publish"
    /\ Len(events) < MaxEvents
    /\ events' = EventRepo_Save(
                    [Type |-> IF call[g].op = "ApproveGovernanceAgreement"
                              THEN "GovernanceAgreementApproved"
                              ELSE "GovernanceAgreementActivated",
                     AgreementID |-> call[g].cmd.AgreementID,
                     OccurredAt |-> now])
    /\ call' = [call EXCEPT ![g] = [op |-> call[g].op, pc |-> "done",
                                    cmd |-> call[g].cmd]]
    /\ ret' = [ret EXCEPT ![g] = Returned(call[g].op, FALSE)]
    /\ UNCHANGED <<applications, agreements, byApplication, portfolios,
                   byOwner, now>>

\* g starts PortfolioService.AddApplicationToPortfolio
AddToPortfolio_Begin(g, cmd) ==
    /\ call[g].pc = "idle"
    /\ call' = [call EXCEPT ![g] = [op |-> "AddApplicationToPortfolio",
                                    pc |-> "findApp", cmd |-> cmd]]
    /\ UNCHANGED <<stores, now, ret>>

\* appRepo.FindByID under the application store's lock
AddToPortfolio_FindApp(g) ==
    LET app == ApplicationRepo_FindByID(call[g].cmd.ApplicationID)
    IN  /\ call[g].op = "AddApplicationToPortfolio"
        /\ call[g].pc = "findApp"
        /\ IF app.err
           THEN /\ call' = [call EXCEPT ![g] = [op |-> call[g].op, pc |-> "done",
                                                cmd |-> call[g].cmd]]
                /\ ret' = [ret EXCEPT ![g] =
                             Returned("AddApplicationToPortfolio", TRUE)]
           ELSE /\ call' = [call EXCEPT ![g] = [op |-> call[g].op,
                                                pc |-> "findAgreement",
                                                cmd |-> call[g].cmd,
                                                app |-> app.val]]
                /\ UNCHANGED ret
        /\ UNCHANGED <<stores, now>>

\* agreementRepo.FindByApplicationID under the agreement store's lock
AddToPortfolio_FindAgreement(g) ==
    LET agreement == AgreementRepo_FindByApplicationID(call[g].cmd.ApplicationID)
    IN  /\ call[g].op = "AddApplicationToPortfolio"
        /\ call[g].pc = "findAgreement"
        /\ IF agreement.err
           THEN /\ call' = [call EXCEPT ![g] = [op |-> call[g].op, pc |-> "done",
                                                cmd |-> call[g].cmd]]
                /\ ret' = [ret EXCEPT ![g] =
                             Returned("AddApplicationToPortfolio", TRUE)]
           ELSE /\ call' = [call EXCEPT ![g] = [op |-> call[g].op,
                                                pc |-> "findPortfolio",
                                                cmd |-> call[g].cmd,
                                                app |-> call[g].app]]
                /\ UNCHANGED ret
        /\ UNCHANGED <<stores, now>>

\* portfolioRepo.FindByID under the portfolio store's lock, then the
\* membership test and the append, both on the copy it returned
AddToPortfolio_FindPortfolio(g) ==
    LET portfolio == PortfolioRepo_FindByID(call[g].cmd.PortfolioID)
    IN  /\ call[g].op = "AddApplicationToPortfolio"
        /\ call[g].pc = "findPortfolio"
        /\ IF \/ portfolio.err
              \/ IndexOf(portfolio.val.Applications, call[g].cmd.ApplicationID) # 0
           THEN /\ call' = [call EXCEPT ![g] = [op |-> call[g].op, pc |-> "done",
                                                cmd |-> call[g].cmd]]
                /\ ret' = [ret EXCEPT ![g] =
                             Returned("AddApplicationToPortfolio", TRUE)]
           ELSE /\ call' = [call EXCEPT ![g] =
                              [op |-> call[g].op, pc |-> "save",
                               cmd |-> call[g].cmd, app |-> call[g].app,
                               portfolio |->
                                   [portfolio.val EXCEPT
                                      !.Applications = Append(@, call[g].app),
                                      !.UpdatedAt = now]]]
                /\ UNCHANGED ret
        /\ UNCHANGED <<stores, now>>

\* portfolioRepo.Save under the portfolio store's lock: the copy replaces
\* what is stored
AddToPortfolio_Save(g) ==
    /\ call[g].op = "AddApplicationToPortfolio"
    /\ call[g].pc = "save"
    /\ SavePortfolio(call[g].portfolio)
    /\ call' = [call EXCEPT ![g] = [op |-> call[g].op, pc |-> "publish",
                                    cmd |-> call[g].cmd, app |-> call[g].app]]
    /\ UNCHANGED <<applications, agreements, byApplication, events, now, ret>>

\* eventRepo.Save of ApplicationAddedToPortfolioEvent, and return nil
AddToPortfolio_Publish(g) ==
    /\ call[g].op = "AddApplicationToPortfolio"
    /\ call[g].pc = "publish"
    /\ Len(events) < MaxEvents
    /\ events' = EventRepo_Save([Type |-> "ApplicationAddedToPortfolio",
                                 PortfolioID |-> call[g].cmd.PortfolioID,
                                 ApplicationID |-> call[g].cmd.ApplicationID,
                                 ApplicationName |-> call[g].app.Name,
                                 GovernanceAgreementID |->
                                     call[g].app.GovernanceAgreementID,
                                 OccurredAt |-> now])
    /\ call' = [call EXCEPT ![g] = [op |-> call[g].op, pc |-> "done",
                                    cmd |-> call[g].cmd]]
    /\ ret' = [ret EXCEPT ![g] = Returned("AddApplicationToPortfolio", FALSE)]
    /\ UNCHANGED <<applications, agreements, byApplication, portfolios,
                   byOwner, now>>

\* g starts GovernanceService.CreateGovernanceAgreement
CreateAgreement_Begin(g, cmd) ==
    /\ call[g].pc = "idle"
    /\ call' = [call EXCEPT ![g] = [op |-> "CreateGovernanceAgreement",
                                    pc |-> "findApp", cmd |-> cmd]]
    /\ UNCHANGED <<stores, now, ret>>

\* appRepo.FindByID under the application store's lock, then the aggregate
\* is built from the command
CreateAgreement_FindApp(g) ==
    LET cmd       == call[g].cmd
        found     == ApplicationRepo_FindByID(cmd.ApplicationID)
        aggregate == NewGovernanceAgreementAggregate(cmd.ID, cmd.ApplicationID,
                                                     cmd.Title)
    IN  /\ call[g].op = "CreateGovernanceAgreement"
        /\ call[g].pc = "findApp"
        /\ IF found.err \/ aggregate.err
           THEN /\ call' = [call EXCEPT ![g] = [op |-> call[g].op, pc |-> "done",
                                                cmd |-> cmd]]
                /\ ret' = [ret EXCEPT ![g] =
                             Returned("CreateGovernanceAgreement", TRUE)]
           ELSE /\ call' = [call EXCEPT ![g] = [op |-> call[g].op, pc |-> "save",
                                                cmd |-> cmd,
                                                aggregate |-> aggregate]]
                /\ UNCHANGED ret
        /\ UNCHANGED <<stores, now>>

\* agreementRepo.Save under the agreement store's lock
CreateAgreement_Save(g) ==
    LET agreement == call[g].aggregate.val
    IN  /\ call[g].op = "CreateGovernanceAgreement"
        /\ call[g].pc = "save"
        /\ agreements' = MapPut(agreements, agreement.ID, agreement)
        /\ byApplication' = MapPut(byApplication, agreement.ApplicationID,
                                   agreement.ID)
        /\ call' = [call EXCEPT ![g] = [op |-> call[g].op, pc |-> "publish",
                                        cmd |-> call[g].cmd,
                                        aggregate |-> call[g].aggregate]]
        /\ UNCHANGED <<applications, portfolios, byOwner, events, now, ret>>

\* eventRepo.Save of the aggregate's events, and the agreement returned
CreateAgreement_Publish(g) ==
    /\ call[g].op = "CreateGovernanceAgreement"
    /\ call[g].pc = "publish"
    /\ Len(events) < MaxEvents
    /\ events' = events \o call[g].aggregate.domainEvents
    /\ call' = [call EXCEPT ![g] = [op |-> call[g].op, pc |-> "done",
                                    cmd |-> call[g].cmd]]
    /\ ret' = [ret EXCEPT ![g] = [op |-> "CreateGovernanceAgreement",
                                  err |-> FALSE,
                                  val |-> call[g].aggregate.val]]
    /\ UNCHANGED <<applications, agreements, byApplication, portfolios,
                   byOwner, now>>

\* g starts EvaluationService.EvaluateApplication
Evaluate_Begin(g, appID) ==
    /\ call[g].pc = "idle"
    /\ call' = [call EXCEPT ![g] = [op |-> "EvaluateApplication",
                                    pc |-> "findApp", appID |-> appID]]
    /\ UNCHANGED <<stores, now, ret>>

\* applicationRepo.FindByID under the application store's lock
Evaluate_FindApp(g) ==
    LET found == ApplicationRepo_FindByID(call[g].appID)
    IN  /\ call[g].op = "EvaluateApplication"
        /\ call[g].pc = "findApp"
        /\ IF found.err
           THEN /\ call' = [call EXCEPT ![g] = [op |-> call[g].op, pc |-> "done",
                                                appID |-> call[g].appID]]
                /\ ret' = [ret EXCEPT ![g] = Returned("EvaluateApplication", TRUE)]
           ELSE /\ call' = [call EXCEPT ![g] = [op |-> call[g].op,
                                                pc |-> "findAgreement",
                                                appID |-> call[g].appID,
                                                app |-> found.val]]
                /\ UNCHANGED ret
        /\ UNCHANGED <<stores, now>>

\* agreementRepo.FindByApplicationID under the agreement store's lock: the
\* agreement it returns is dropped, only the error is looked at
Evaluate_FindAgreement(g) ==
    LET found == AgreementRepo_FindByApplicationID(call[g].appID)
    IN  /\ call[g].op = "EvaluateApplication"
        /\ call[g].pc = "findAgreement"
        /\ IF found.err
           THEN /\ call' = [call EXCEPT ![g] = [op |-> call[g].op, pc |-> "done",
                                                appID |-> call[g].appID]]
                /\ ret' = [ret EXCEPT ![g] = Returned("EvaluateApplication", TRUE)]
           ELSE /\ call' = [call EXCEPT ![g] = [op |-> call[g].op,
                                                pc |-> "assess",
                                                appID |-> call[g].appID,
                                                app |-> call[g].app]]
                /\ UNCHANGED ret
        /\ UNCHANGED <<stores, now>>

\* The rest of EvaluateApplication: assessBusinessValue makes the second
\* agreementRepo.FindByApplicationID, under the lock again, and everything
\* else is computed from the copies
Evaluate_Assess(g) ==
    /\ call[g].op = "EvaluateApplication"
    /\ call[g].pc = "assess"
    /\ call' = [call EXCEPT ![g] = [op |-> call[g].op, pc |-> "done",
                                    appID |-> call[g].appID,
                                    app |-> call[g].app]]
    /\ ret' = [ret EXCEPT ![g] = [op |-> "EvaluateApplication", err |-> FALSE,
                                  val |-> assess(call[g].appID, call[g].app)]]
    /\ UNCHANGED <<stores, now>>

\* g calls GovernanceAgreementRepositoryMemory.Save, one step under the lock
AgreementStore_Save(g, agreement) ==
    /\ call[g].pc \in {"idle", "done"}
    /\ agreements' = MapPut(agreements, agreement.ID, agreement)
    /\ byApplication' = MapPut(byApplication, agreement.ApplicationID, agreement.ID)
    /\ call' = [call EXCEPT ![g] = [op |-> "AgreementRepo.Save", pc |-> "done",
                                    ID |-> agreement.ID]]
    /\ ret' = [ret EXCEPT ![g] = Returned("AgreementRepo.Save", FALSE)]
    /\ UNCHANGED <<applications, portfolios, byOwner, events, now>>

\* g calls GovernanceAgreementRepositoryMemory.Delete, one step under the
\* lock
AgreementStore_Delete(g, id) ==
    /\ call[g].pc \in {"idle", "done"}
    /\ call' = [call EXCEPT ![g] = [op |-> "AgreementRepo.Delete", pc |-> "done",
                                    ID |-> id]]
    /\ IF id \notin DOMAIN agreements
       THEN /\ ret' = [ret EXCEPT ![g] = Returned("AgreementRepo.Delete", TRUE)]
            /\ UNCHANGED <<agreements, byApplication>>
       ELSE /\ agreements' = MapDelete(agreements, id)
            /\ byApplication' = MapDelete(byApplication, agreements[id].ApplicationID)
            /\ ret' = [ret EXCEPT ![g] = Returned("AgreementRepo.Delete", FALSE)]
    /\ UNCHANGED <<applications, portfolios, byOwner, events, now>>

-----------------------------------------------------------------------------
(* The governance agreement's life: GovernanceService and DirectionService *)
(* over one application and one agreement ID                               *)

GovApplications ==
    {[ZeroApplication EXCEPT !.ID = "a1", !.Name = "CRM", !.Status = StatusActive,
                             !.CreatedAt = Clock0 - 100]}

\* a2 is never stored, the empty title does not validate
GovCreateCommands ==
    [ID : {"g1"}, ApplicationID : {"a1", "a2"}, Title : {"Agreement", ""}]

\* g2 is never created
GovAgreementIDs == {"g1", "g2"}

GovObjectives == {<<[Name |-> "Reduce cost", Deadline |-> Clock0 + 180]>>}

InitGov ==
    /\ applications = EmptyMap
    /\ agreements = EmptyMap
    /\ byApplication = EmptyMap
    /\ portfolios = EmptyMap
    /\ byOwner = EmptyMap
    /\ events = <<>>
    /\ now = Clock0
    /\ call = NoCall
    /\ ret = NoRet

NextGov ==
    \/ \E app \in GovApplications : ApplicationRepo_Save(app)
    \/ \E cmd \in GovCreateCommands : CreateGovernanceAgreement(cmd)
    \/ \E cmd \in [AgreementID : GovAgreementIDs, Strategy : {"cloud first"}] :
         UpdateStrategy(cmd)
    \/ \E cmd \in [AgreementID : GovAgreementIDs, Acquisition : {"buy"}] :
         UpdateAcquisition(cmd)
    \/ \E cmd \in [AgreementID : GovAgreementIDs, Performance : {"99.9"}] :
         UpdatePerformance(cmd)
    \/ \E cmd \in [AgreementID : GovAgreementIDs,
                   Conformance : {[ComplianceMonitoring |->
                                     [MonitoringFrequency |-> "monthly"]]}] :
         UpdateConformance(cmd)
    \/ \E cmd \in [AgreementID : GovAgreementIDs, Implementation : {"phased"}] :
         UpdateImplementation(cmd)
    \/ \E cmd \in [AgreementID : GovAgreementIDs] : ApproveGovernanceAgreement(cmd)
    \/ \E cmd \in [AgreementID : GovAgreementIDs] : ActivateGovernanceAgreement(cmd)
    \/ \E id \in GovAgreementIDs, objectives \in GovObjectives :
         SetStrategicDirection(id, "cio", objectives, <<>>)
    \/ \E id \in GovAgreementIDs : AllocateResources(id, Items(1), <<>>)
    \/ \E id \in GovAgreementIDs : EstablishPolicies(id, Items(1), <<>>, <<>>)

SpecGov == InitGov /\ [][NextGov]_vars

-----------------------------------------------------------------------------
(* The portfolio's members: PortfolioService and the portfolio store       *)

\* a1 gets a governance agreement, a2 never does
PfApplications ==
    {[ZeroApplication EXCEPT !.ID = "a1", !.Name = "CRM", !.Status = StatusActive,
                             !.GovernanceAgreementID = "g1",
                             !.CreatedAt = Clock0 - 100],
     [ZeroApplication EXCEPT !.ID = "a2", !.Name = "ERP", !.Status = StatusActive,
                             !.CreatedAt = Clock0 - 100]}

PfAgreements ==
    {[ZeroAgreement EXCEPT !.ID = "g1", !.ApplicationID = "a1",
                           !.Title = "Agreement", !.Version = "1.0",
                           !.Status = AgreementDraft, !.CreatedAt = Clock0 - 100,
                           !.UpdatedAt = Clock0 - 100]}

\* the empty name does not validate
PfCreateCommands ==
    [ID : {"p1"}, Name : {"Core", ""}, Description : {"core systems"},
     Owner : {"cio"}]

\* p2 is never created
PfPortfolioIDs == {"p1", "p2"}

PfApplicationIDs == {"a1", "a2"}

InitPortfolio ==
    /\ applications = EmptyMap
    /\ agreements = EmptyMap
    /\ byApplication = EmptyMap
    /\ portfolios = EmptyMap
    /\ byOwner = EmptyMap
    /\ events = <<>>
    /\ now = Clock0
    /\ call = NoCall
    /\ ret = NoRet

NextPortfolio ==
    \/ \E app \in PfApplications : ApplicationRepo_Save(app)
    \/ \E agreement \in PfAgreements : AgreementRepo_Save(agreement)
    \/ \E cmd \in PfCreateCommands : CreatePortfolio(cmd)
    \/ \E cmd \in [PortfolioID : PfPortfolioIDs, ApplicationID : PfApplicationIDs] :
         AddApplicationToPortfolio(cmd)
    \/ \E cmd \in [PortfolioID : PfPortfolioIDs, ApplicationID : PfApplicationIDs] :
         RemoveApplicationFromPortfolio(cmd)
    \/ \E cmd \in [ID : PfPortfolioIDs, Name : {"Core v2"},
                   Description : {"core systems"}] :
         UpdatePortfolio(cmd)
    \/ \E id \in PfPortfolioIDs : DeletePortfolio(id)
    \/ \E id \in PfPortfolioIDs, appID \in PfApplicationIDs :
         PortfolioRepo_AddApplication(id, appID)
    \/ \E id \in PfPortfolioIDs, appID \in PfApplicationIDs :
         PortfolioRepo_RemoveApplication(id, appID)

SpecPortfolio == InitPortfolio /\ [][NextPortfolio]_vars

-----------------------------------------------------------------------------
(* Evaluation over the stores, filled through the repositories as the test *)
(* program fills them, while time passes                                   *)

\* a1 is two years old sixty days from now and was updated eighty days ago;
\* it is stored as active or as retired.  a2 has no creation time.
StoreApplications ==
    {[ZeroApplication EXCEPT !.ID = "a1", !.Name = "CRM", !.Status = StatusActive,
                             !.GovernanceAgreementID = "g1",
                             !.CreatedAt = Clock0 - 700,
                             !.UpdatedAt = Clock0 - 80],
     [ZeroApplication EXCEPT !.ID = "a1", !.Name = "CRM", !.Status = StatusRetired,
                             !.GovernanceAgreementID = "g1",
                             !.CreatedAt = Clock0 - 700,
                             !.UpdatedAt = Clock0 - 80],
     [ZeroApplication EXCEPT !.ID = "a2", !.Name = "ERP",
                             !.Status = StatusDeprecated,
                             !.GovernanceAgreementID = "g2"]}

\* g1 is saved for a1 and for a2, which leaves index entries behind
StoreAgreements ==
    {[ZeroAgreement EXCEPT !.ID = g[1], !.ApplicationID = g[2],
                           !.Title = "Agreement", !.Version = "1.0",
                           !.Status = AgreementDraft, !.CreatedAt = Clock0 - 100,
                           !.UpdatedAt = Clock0 - 100]
     : g \in {<<"g1", "a1">>, <<"g2", "a2">>, <<"g1", "a2">>}}

\* The member lists a caller hands to Save: copies of applications, which
\* need not be the copies the application store holds
StoreMemberLists ==
    {<<>>}
    \cup {<<app>> : app \in {x \in StoreApplications : x.Status = StatusActive}}
    \cup {<<a, b>> : a \in {x \in StoreApplications : x.Status = StatusRetired},
                     b \in {x \in StoreApplications : x.ID = "a2"}}

StorePortfolios ==
    {[ZeroPortfolio EXCEPT !.ID = "p1", !.Name = "Core", !.Owner = "cio",
                           !.Applications = members]
     : members \in StoreMemberLists}

\* p2 is never stored, a3 is in no store
StorePortfolioIDs == {"p1", "p2"}

StoreApplicationIDs == {"a1", "a2", "a3"}

Evaluators == {"auditor", "system"}

\* The clock readings calls are made at
ClockReadings == {Clock0, Clock0 + 60}

Init ==
    /\ applications = EmptyMap
    /\ agreements = EmptyMap
    /\ byApplication = EmptyMap
    /\ portfolios = EmptyMap
    /\ byOwner = EmptyMap
    /\ events = <<>>
    /\ now = Clock0
    /\ call = NoCall
    /\ ret = NoRet

Next ==
    \/ \E app \in StoreApplications : ApplicationRepo_Save(app)
    \/ \E agreement \in StoreAgreements : AgreementRepo_Save(agreement)
    \/ \E id \in {"g1", "g2"} : AgreementRepo_Delete(id)
    \/ \E portfolio \in StorePortfolios : PortfolioRepo_Save(portfolio)
    \/ \E id \in StorePortfolioIDs : PortfolioRepo_AddApplication(id, "a3")
    \/ \E appID \in StoreApplicationIDs, evaluator \in Evaluators :
         CallEvaluateApplication(appID, evaluator)
    \/ \E id \in StorePortfolioIDs : CallEvaluatePortfolio(id)
    \/ \E t \in ClockReadings : Tick(t)

Spec == Init /\ [][Next]_vars

-----------------------------------------------------------------------------
(* Adding a member: the service, the store and the entity                  *)

\* The applications handed to ApplicationPortfolio.AddApplication: the two
\* stored ones and one without a name
MemberCandidates ==
    PfApplications \cup {[ZeroApplication EXCEPT !.ID = "a1"]}

NextMembers ==
    \/ NextPortfolio
    \/ \E id \in DOMAIN portfolios, app \in MemberCandidates :
         CallPortfolioAddApplication(portfolios[id], app)

SpecMembers == InitPortfolio /\ [][NextMembers]_vars

-----------------------------------------------------------------------------
(* Members of a portfolio and the canonical records of the application     *)
(* store                                                                   *)

\* The records written to the application store: each application as active
\* and as deprecated
CopyApplications ==
    {[ZeroApplication EXCEPT !.ID = id, !.Name = "CRM", !.Status = status,
                             !.GovernanceAgreementID =
                                 IF id = "a1" THEN "g1" ELSE "g2",
                             !.CreatedAt = Clock0 - 100]
     : id \in {"a1", "a2"}, status \in {StatusActive, StatusDeprecated}}

CopyAgreements ==
    {[ZeroAgreement EXCEPT !.ID = "g1", !.ApplicationID = "a1",
                           !.Title = "Agreement", !.Version = "1.0",
                           !.Status = AgreementDraft, !.CreatedAt = Clock0 - 100,
                           !.UpdatedAt = Clock0 - 100],
     [ZeroAgreement EXCEPT !.ID = "g2", !.ApplicationID = "a2",
                           !.Title = "Agreement", !.Version = "1.0",
                           !.Status = AgreementDraft, !.CreatedAt = Clock0 - 100,
                           !.UpdatedAt = Clock0 - 100]}

\* Every member of a portfolio gets there through
\* PortfolioService.AddApplicationToPortfolio
NextCopy ==
    \/ \E app \in CopyApplications : ApplicationRepo_Save(app)
    \/ \E app \in CopyApplications : ApplicationRepo_Update(app)
    \/ \E id \in {"a1", "a2"} : ApplicationRepo_Delete(id)
    \/ \E agreement \in CopyAgreements : AgreementRepo_Save(agreement)
    \/ CreatePortfolio([ID |-> "p1", Name |-> "Core",
                        Description |-> "core systems", Owner |-> "cio"])
    \/ \E appID \in {"a1", "a2"} :
         AddApplicationToPortfolio([PortfolioID |-> "p1", ApplicationID |-> appID])
    \/ CallEvaluatePortfolio("p1")

SpecCopy == InitPortfolio /\ [][NextCopy]_vars

-----------------------------------------------------------------------------
(* Agreements created for the stored applications                          *)

LinkApplications ==
    {[ZeroApplication EXCEPT !.ID = id, !.Name = "CRM", !.Status = StatusActive,
                             !.CreatedAt = Clock0 - 100]
     : id \in {"a1", "a2"}}

\* Two agreement IDs and two application IDs, in every combination
LinkCreateCommands ==
    [ID : {"g1", "g2"}, ApplicationID : {"a1", "a2"}, Title : {"Agreement"}]

NextLink ==
    \/ \E app \in LinkApplications : ApplicationRepo_Save(app)
    \/ \E cmd \in LinkCreateCommands : CreateGovernanceAgreement(cmd)

SpecLink == Init /\ [][NextLink]_vars

-----------------------------------------------------------------------------
(* Calls of the MCP tools, with arguments present, missing, empty or of    *)
(* another type than string                                                *)

ToolApplicationArgs ==
    ToolArgs({"id", "name"}, {JSONString("a1"), JSONString(""), JSONNumber(7)})

ToolAgreementArgs ==
    {[id |-> JSONString("g1"), application_id |-> JSONString("a1"),
      title |-> JSONString("Agreement")],
     [id |-> JSONString("g1"), title |-> JSONString("Agreement")]}

ToolPortfolioArgs ==
    {[id |-> JSONString("p1"), name |-> JSONString("Core"),
      owner |-> JSONString("cio")],
     [id |-> JSONString("p1"), owner |-> JSONString("cio")]}

ToolMemberArgs ==
    ToolArgs({"portfolio_id", "application_id"},
             {JSONString("a1"), JSONString("p1")})

NextTools ==
    \/ \E args \in ToolApplicationArgs : MCP_createApplication(args)
    \/ \E args \in ToolAgreementArgs : MCP_createGovernanceAgreement(args)
    \/ \E args \in ToolPortfolioArgs : MCP_createPortfolio(args)
    \/ \E args \in ToolMemberArgs : MCP_addToPortfolio(args)

SpecTools == Init /\ [][NextTools]_vars

-----------------------------------------------------------------------------
(* Evaluations between the operations that write the stores and the event  *)
(* log                                                                     *)

\* a3 is in no store, p2 is never created
NextRead ==
    \/ NextCopy
    \/ \E appID \in {"a1", "a2", "a3"} : CallEvaluateApplication(appID, "auditor")
    \/ CallEvaluatePortfolio("p2")

SpecRead == InitPortfolio /\ [][NextRead]_vars

-----------------------------------------------------------------------------
(* The six operations that publish an event, over an event repository that *)
(* can fail                                                                *)

NextEvents ==
    \/ \E app \in GovApplications : ApplicationRepo_Save(app)
    \/ \E outcome \in EventSaveOutcomes :
         \/ \E cmd \in [ID : {"g1"}, ApplicationID : {"a1", "a2"},
                        Title : {"Agreement"}] :
              CreateGovernanceAgreement_EventRepo(cmd, outcome)
         \/ \E id \in GovAgreementIDs :
              ApproveGovernanceAgreement_EventRepo([AgreementID |-> id], outcome)
         \/ \E id \in GovAgreementIDs :
              ActivateGovernanceAgreement_EventRepo([AgreementID |-> id], outcome)
         \/ \E cmd \in [ID : {"p1"}, Name : {"Core", ""},
                        Description : {"core systems"}, Owner : {"cio"}] :
              CreatePortfolio_EventRepo(cmd, outcome)
         \/ \E cmd \in [PortfolioID : PfPortfolioIDs, ApplicationID : {"a1"}] :
              AddApplicationToPortfolio_EventRepo(cmd, outcome)
         \/ \E cmd \in [PortfolioID : PfPortfolioIDs, ApplicationID : {"a1"}] :
              RemoveApplicationFromPortfolio_EventRepo(cmd, outcome)

SpecEvents == Init /\ [][NextEvents]_vars

-----------------------------------------------------------------------------
(* Direction given to an agreement, once and again                         *)

\* An objective and its deadline; ZeroTime is an objective without one
Objective(name, deadline) == [Name |-> name, Deadline |-> deadline]

\* The lists of objectives given: none, one, two, and eleven, so that a
\* plan's number takes two digits
DirectObjectives ==
    {<<>>,
     <<Objective("Reduce cost", Clock0 + 180)>>,
     <<Objective("Consolidate", Clock0 + 20), Objective("Reduce cost", ZeroTime)>>,
     [i \in 1..11 |-> Objective("Migrate", Clock0 + 30 * i)]}

DirectInitiatives == {<<>>, Items(1)}

\* g2 is never created
NextDirect ==
    \/ \E app \in GovApplications : ApplicationRepo_Save(app)
    \/ CreateGovernanceAgreement([ID |-> "g1", ApplicationID |-> "a1",
                                  Title |-> "Agreement"])
    \/ ApproveGovernanceAgreement([AgreementID |-> "g1"])
    \/ AllocateResources("g1", Items(1), <<>>)
    \/ EstablishPolicies("g1", Items(1), <<>>, <<>>)
    \/ \E id \in GovAgreementIDs, objectives \in DirectObjectives,
          initiatives \in DirectInitiatives :
         SetStrategicDirection(id, "cio", objectives, initiatives)

SpecDirect == InitGov /\ [][NextDirect]_vars

-----------------------------------------------------------------------------
(* Monitoring, with and without its repositories                           *)

\* What a configured KPI repository returns from FindAll
MonitorKPIRepos ==
    {[nil |-> FALSE, err |-> FALSE, kpis |-> <<>>],
     [nil |-> FALSE, err |-> TRUE, kpis |-> <<>>],
     [nil |-> FALSE, err |-> FALSE,
      kpis |-> <<[ID |-> "uptime", Target |-> Tenths(99, 9),
                  Category |-> "performance"],
                 [ID |-> "cost", Target |-> Tenths(50, 0),
                  Category |-> "efficiency"]>>]}

\* What a configured measurement repository holds as latest measurements
MonitorMeasurementRepos ==
    {[nil |-> FALSE, latest |-> EmptyMap],
     [nil |-> FALSE,
      latest |-> [id \in {"uptime"} |->
                    [KPIID |-> id, Value |-> Tenths(99, 9),
                     Target |-> Tenths(99, 9), Achieved |-> FALSE,
                     MeasuredAt |-> Clock0 - 1, Notes |-> ""]]],
     [nil |-> FALSE,
      latest |-> [id \in {"uptime", "cost"} |->
                    [KPIID |-> id, Value |-> Tenths(60, 0),
                     Target |-> Tenths(50, 0), Achieved |-> TRUE,
                     MeasuredAt |-> Clock0 - 1, Notes |-> ""]]]}

\* Probabilities from 0 to 1 in steps that meet and miss the thresholds, and
\* some above 1, which Risk does not rule out
MonitorProbabilities ==
    {Hundredths(0, 0), Hundredths(0, 49), Hundredths(0, 50), Hundredths(0, 67),
     Hundredths(0, 75), Hundredths(1, 0), Hundredths(2, 0), Hundredths(3, 0),
     Hundredths(4, 50)}

MonitorRisk(probability, impact, level) ==
    [ID |-> "r1", Name |-> "Outage", Probability |-> probability,
     Impact |-> impact, Level |-> level]

\* The lists a configured risk repository returns from FindAll: none, each
\* single risk, and two risks
MonitorRiskLists ==
    {<<>>,
     <<MonitorRisk(Hundredths(1, 0), ImpactHigh, RiskLow),
       MonitorRisk(Hundredths(0, 50), ImpactLow, RiskCritical)>>}
    \cup {<<MonitorRisk(probability, impact, level)>> :
            probability \in MonitorProbabilities,
            impact \in {ImpactLow, ImpactMedium, ImpactHigh, ImpactCritical},
            level \in RiskLevels}

MonitorRiskRepos ==
    {[nil |-> FALSE, err |-> TRUE, risks |-> <<>>]}
    \cup {[nil |-> FALSE, err |-> FALSE, risks |-> risks] :
            risks \in MonitorRiskLists}

\* g2 is never created
NextMonitor ==
    \/ \E app \in GovApplications : ApplicationRepo_Save(app)
    \/ CreateGovernanceAgreement([ID |-> "g1", ApplicationID |-> "a1",
                                  Title |-> "Agreement"])
    \/ \E id \in GovAgreementIDs, kpiRepo \in MonitorKPIRepos \cup {Nil},
          measurementRepo \in MonitorMeasurementRepos \cup {Nil} :
         CallMonitorKPIs(id, kpiRepo, measurementRepo)
    \/ \E id \in GovAgreementIDs, riskRepo \in MonitorRiskRepos \cup {Nil} :
         CallMonitorRisks(id, riskRepo)

SpecMonitor == InitGov /\ [][NextMonitor]_vars

-----------------------------------------------------------------------------
(* The agreement store on its own                                          *)

\* Two agreements, each for either application, draft or approved
IndexAgreements ==
    {[ZeroAgreement EXCEPT !.ID = id, !.ApplicationID = appID,
                           !.Title = "Agreement", !.Version = "1.0",
                           !.Status = status]
     : id \in {"g1", "g2"}, appID \in {"a1", "a2"},
       status \in {AgreementDraft, AgreementApproved}}

NextIndex ==
    \/ \E agreement \in IndexAgreements : AgreementRepo_Save(agreement)
    \/ \E agreement \in IndexAgreements : AgreementRepo_Update(agreement)
    \/ \E id \in {"g1", "g2"} : AgreementRepo_Delete(id)

SpecIndex == Init /\ [][NextIndex]_vars

-----------------------------------------------------------------------------
(* Goroutines saving events at the same time                               *)

Savers == {"s1", "s2", "s3"}

\* Each goroutine saves one event of its own
SaverEvents(g) == {[Type |-> type, Source |-> g] : type \in {"created", "approved"}}

InitRace ==
    /\ applications = EmptyMap
    /\ agreements = EmptyMap
    /\ byApplication = EmptyMap
    /\ portfolios = EmptyMap
    /\ byOwner = EmptyMap
    /\ events = <<>>
    /\ now = Clock0
    /\ call = [g \in Savers |-> Idle]
    /\ ret = [g \in Savers |-> NoRet]

NextRace ==
    \E g \in Savers :
        \/ \E event \in SaverEvents(g) : EventSave_Begin(g, event)
        \/ EventSave_Load(g)
        \/ EventSave_Store(g)

SpecRace == InitRace /\ [][NextRace]_vars

-----------------------------------------------------------------------------
(* Goroutines approving and activating one agreement at the same time      *)

Approvers == {"t1", "t2", "t3"}

\* The agreement g1 is stored as a draft, as after
\* GovernanceAgreementRepositoryMemory.Save; each goroutine makes one call
InitStatus ==
    /\ applications = [id \in {"a1"} |-> CHOOSE app \in GovApplications : TRUE]
    /\ agreements = [id \in {"g1"} |->
                        [ZeroAgreement EXCEPT !.ID = "g1", !.ApplicationID = "a1",
                                              !.Title = "Agreement",
                                              !.Version = "1.0",
                                              !.Status = AgreementDraft,
                                              !.CreatedAt = Clock0,
                                              !.UpdatedAt = Clock0]]
    /\ byApplication = [id \in {"a1"} |-> "g1"]
    /\ portfolios = EmptyMap
    /\ byOwner = EmptyMap
    /\ events = <<>>
    /\ now = Clock0
    /\ call = [g \in Approvers |-> Idle]
    /\ ret = [g \in Approvers |-> NoRet]

\* g2 is not stored
NextStatus ==
    \E g \in Approvers :
        \/ \E op \in {"ApproveGovernanceAgreement", "ActivateGovernanceAgreement"},
              id \in GovAgreementIDs :
             StatusChange_Begin(g, op, [AgreementID |-> id])
        \/ StatusChange_Find(g, "ApproveGovernanceAgreement",
                             AgreementDraft, AgreementApproved)
        \/ StatusChange_Find(g, "ActivateGovernanceAgreement",
                             AgreementApproved, AgreementActive)
        \/ StatusChange_Update(g)
        \/ StatusChange_Publish(g)

SpecStatus == InitStatus /\ [][NextStatus]_vars

-----------------------------------------------------------------------------
(* Goroutines adding applications to one portfolio at the same time        *)

Adders == {"u1", "u2"}

\* a1 and a2 are stored and governed, a3 is stored without an agreement
AdderApplications ==
    [id \in {"a1", "a2", "a3"} |->
        [ZeroApplication EXCEPT !.ID = id,
                                !.Name = IF id = "a1" THEN "CRM"
                                         ELSE IF id = "a2" THEN "ERP" ELSE "Wiki",
                                !.Status = StatusActive,
                                !.GovernanceAgreementID =
                                    IF id = "a1" THEN "g1"
                                    ELSE IF id = "a2" THEN "g2" ELSE "",
                                !.CreatedAt = Clock0 - 100]]

AdderAgreements ==
    [id \in {"g1", "g2"} |->
        [ZeroAgreement EXCEPT !.ID = id,
                              !.ApplicationID = IF id = "g1" THEN "a1" ELSE "a2",
                              !.Title = "Agreement", !.Version = "1.0",
                              !.Status = AgreementDraft,
                              !.CreatedAt = Clock0 - 100,
                              !.UpdatedAt = Clock0 - 100]]

\* The stores as after the Saves of the applications and agreements and
\* CreatePortfolio of p1; each goroutine makes one call
InitAdders ==
    /\ applications = AdderApplications
    /\ agreements = AdderAgreements
    /\ byApplication = [id \in {"a1", "a2"} |-> IF id = "a1" THEN "g1" ELSE "g2"]
    /\ now = Clock0
    /\ portfolios = [id \in {"p1"} |->
                        NewApplicationPortfolioAggregate(
                            "p1", "Core", "core systems", "cio").val]
    /\ byOwner = [owner \in {"cio"} |-> <<"p1">>]
    /\ events = <<>>
    /\ call = [g \in Adders |-> Idle]
    /\ ret = [g \in Adders |-> NoRet]

\* p2 is not stored
NextAdders ==
    \E g \in Adders :
        \/ \E cmd \in [PortfolioID : {"p1", "p2"},
                       ApplicationID : {"a1", "a2", "a3"}] :
             AddToPortfolio_Begin(g, cmd)
        \/ AddToPortfolio_FindApp(g)
        \/ AddToPortfolio_FindAgreement(g)
        \/ AddToPortfolio_FindPortfolio(g)
        \/ AddToPortfolio_Save(g)
        \/ AddToPortfolio_Publish(g)

SpecAdders == InitAdders /\ [][NextAdders]_vars

-----------------------------------------------------------------------------
(* The operations of PortfolioService alone, over two portfolios and two   *)
(* governed applications                                                   *)

ServiceApplicationIDs == {"a1", "a2"}

ServiceCreateCommands ==
    [ID : PfPortfolioIDs, Name : {"Core", ""}, Description : {"core systems"},
     Owner : {"cio"}]

ServiceMemberCommands ==
    [PortfolioID : PfPortfolioIDs, ApplicationID : ServiceApplicationIDs]

NextService ==
    \/ \E id \in ServiceApplicationIDs : ApplicationRepo_Save(AdderApplications[id])
    \/ \E id \in DOMAIN AdderAgreements : AgreementRepo_Save(AdderAgreements[id])
    \/ \E cmd \in ServiceCreateCommands : CreatePortfolio(cmd)
    \/ \E cmd \in ServiceMemberCommands : AddApplicationToPortfolio(cmd)
    \/ \E cmd \in ServiceMemberCommands : RemoveApplicationFromPortfolio(cmd)
    \/ \E cmd \in [ID : PfPortfolioIDs, Name : {"Core v2"},
                   Description : {"core systems"}] :
         UpdatePortfolio(cmd)
    \/ \E id \in PfPortfolioIDs : DeletePortfolio(id)

SpecService == InitPortfolio /\ [][NextService]_vars

-----------------------------------------------------------------------------
(* Goroutines creating, approving and activating one agreement at the same *)
(* time, and the event log they write                                      *)

\* The application a1 is stored, no agreement is; each goroutine makes one
\* call
InitLog ==
    /\ applications = [id \in {"a1"} |-> CHOOSE app \in GovApplications : TRUE]
    /\ agreements = EmptyMap
    /\ byApplication = EmptyMap
    /\ portfolios = EmptyMap
    /\ byOwner = EmptyMap
    /\ events = <<>>
    /\ now = Clock0
    /\ call = [g \in Approvers |-> Idle]
    /\ ret = [g \in Approvers |-> NoRet]

NextLog ==
    \E g \in Approvers :
        \/ \E cmd \in GovCreateCommands : CreateAgreement_Begin(g, cmd)
        \/ CreateAgreement_FindApp(g)
        \/ CreateAgreement_Save(g)
        \/ CreateAgreement_Publish(g)
        \/ \E op \in {"ApproveGovernanceAgreement", "ActivateGovernanceAgreement"},
              id \in GovAgreementIDs :
             StatusChange_Begin(g, op, [AgreementID |-> id])
        \/ StatusChange_Find(g, "ApproveGovernanceAgreement",
                             AgreementDraft, AgreementApproved)
        \/ StatusChange_Find(g, "ActivateGovernanceAgreement",
                             AgreementApproved, AgreementActive)
        \/ StatusChange_Update(g)
        \/ StatusChange_Publish(g)

SpecLog == InitLog /\ [][NextLog]_vars

-----------------------------------------------------------------------------
(* Goroutines evaluating applications while another saves and deletes      *)
(* their agreements                                                        *)

EvaluatorGoroutines == {"e1", "e2"}

StoreCallers == {"w1"}

\* The applications a1, a2, a3 and the agreements g1 of a1 and g2 of a2 are
\* stored; a4 is not.  Each evaluator makes one call, the store's caller any
\* number.
InitScoring ==
    /\ applications = AdderApplications
    /\ agreements = AdderAgreements
    /\ byApplication = [id \in {"a1", "a2"} |-> IF id = "a1" THEN "g1" ELSE "g2"]
    /\ portfolios = EmptyMap
    /\ byOwner = EmptyMap
    /\ events = <<>>
    /\ now = Clock0
    /\ call = [g \in EvaluatorGoroutines \cup StoreCallers |-> Idle]
    /\ ret = [g \in EvaluatorGoroutines \cup StoreCallers |-> NoRet]

NextScoring ==
    \/ \E g \in EvaluatorGoroutines :
        \/ \E appID \in {"a1", "a2", "a3", "a4"} : Evaluate_Begin(g, appID)
        \/ Evaluate_FindApp(g)
        \/ Evaluate_FindAgreement(g)
        \/ Evaluate_Assess(g)
    \/ \E g \in StoreCallers :
        \/ \E id \in DOMAIN AdderAgreements :
             AgreementStore_Save(g, AdderAgreements[id])
        \/ \E id \in DOMAIN AdderAgreements : AgreementStore_Delete(g, id)

SpecScoring == InitScoring /\ [][NextScoring]_vars

-----------------------------------------------------------------------------
(* MonitorRisks over risks whose Impact and Level are any strings          *)

\* Risk.Impact and Risk.Level are string types and nothing validates a Risk:
\* next to the declared constants a stored risk can carry the zero value ""
\* or any other string
RiskImpactValues == {ImpactLow, ImpactMedium, ImpactHigh, ImpactCritical, ""}

RiskLevelValues == RiskLevels \cup {"", "severe"}

\* The lists FindAll returns: each single risk, and two risks of the same
\* value at the level medium and at no level
StoredRiskLists ==
    {<<MonitorRisk(Hundredths(1, 0), ImpactCritical, RiskMedium),
       MonitorRisk(Hundredths(1, 0), ImpactCritical, "")>>}
    \cup {<<MonitorRisk(probability, impact, level)>> :
            probability \in MonitorProbabilities,
            impact \in RiskImpactValues,
            level \in RiskLevelValues}

\* A configured risk repository whose FindAll succeeds
StoredRiskRepos ==
    {[nil |-> FALSE, err |-> FALSE, risks |-> risks] : risks \in StoredRiskLists}

NextRisks ==
    \E id \in GovAgreementIDs, riskRepo \in StoredRiskRepos :
        CallMonitorRisks(id, riskRepo)

SpecRisks == InitGov /\ [][NextRisks]_vars

-----------------------------------------------------------------------------
(* adjustScoreWithVariance and assessTechnicalHealth on their own          *)

\* Scores below, in and above 1..5, past the point where the variance is
\* held to half a point
AdjustBaseScores == (0 - 12)..12

\* The factor pairs assessTechnicalHealth passes, and two others, in tenths
AdjustFactors == {<<8, 12>>, <<9, 11>>, <<7, 13>>, <<10, 10>>, <<0, 30>>}

\* The applications of EvalApplications without the largest catalogue
\* and provisions
AdjustApplications ==
    {app \in EvalApplications :
        /\ app.SecurityProvisions.DataIntegrity = Items(0)
        /\ app.SecurityProvisions.ApplicationAuthenticity = Items(0)}

\* One call is made from the initial state
AdjustScore ==
    /\ call.op = "none"
    /\ \E baseScore \in AdjustBaseScores, factors \in AdjustFactors :
         CallAdjustScoreWithVariance(baseScore, factors[1], factors[2])

AssessApplication ==
    /\ call.op = "none"
    /\ \E app \in AdjustApplications : CallAssessTechnicalHealth(app)

NextAdjust == AdjustScore \/ AssessApplication

SpecAdjust == InitGov /\ [][NextAdjust]_vars

-----------------------------------------------------------------------------
(* Claims                                                                  *)

Evaluated == ret.op = "EvaluateApplication" /\ ~ret.err

\* C1: every assessment EvaluateApplication returns has CodeQuality,
\* Documentation, SecurityScore and PerformanceScore in 1..5 and
\* BusinessAlignment, CostEfficiency and UserSatisfaction in 0..100.
C1_ScoresWithinBounds ==
    Evaluated =>
        /\ ret.val.TechnicalHealth.CodeQuality \in 1..5
        /\ ret.val.TechnicalHealth.Documentation \in 1..5
        /\ ret.val.TechnicalHealth.SecurityScore \in 1..5
        /\ ret.val.TechnicalHealth.PerformanceScore \in 1..5
        /\ ret.val.BusinessValue.BusinessAlignment \in 0..100
        /\ ret.val.BusinessValue.CostEfficiency \in 0..100
        /\ ret.val.BusinessValue.UserSatisfaction \in 0..100

\* An assessment in which the holds have acted: the security sub-score
\* before the hold exceeds 5 and the alignment stands at its cap.
C1_Witness ==
    /\ Evaluated
    /\ LET app == applications[call.appID]
       IN  technicalScore(app) + analyzeSecurityProvisions(app.SecurityProvisions) > 5
    /\ ret.val.TechnicalHealth.SecurityScore = 5
    /\ ret.val.BusinessValue.BusinessAlignment = 100

\* C4: with avg the truncated third of CodeQuality + SecurityScore +
\* PerformanceScore, determineRiskLevel returns Critical iff avg <= 2 or
\* CostEfficiency < 50; otherwise High iff avg <= 3 or CostEfficiency < 70;
\* otherwise Medium iff avg <= 4; otherwise Low.
C4_RiskLevelThresholds ==
    ret.op = "determineRiskLevel" =>
        LET sum  == call.techHealth.CodeQuality + call.techHealth.SecurityScore
                    + call.techHealth.PerformanceScore
            cost == call.businessValue.CostEfficiency
            risk == ret.val.RiskLevel
        IN  \E avg \in 0..5 :
                /\ 3 * avg <= sum /\ sum < 3 * avg + 3
                /\ LET critical == avg <= 2 \/ cost < 50
                       high     == ~critical /\ (avg <= 3 \/ cost < 70)
                       medium   == ~critical /\ ~high /\ avg <= 4
                   IN  /\ risk = RiskCritical <=> critical
                       /\ risk = RiskHigh <=> high
                       /\ risk = RiskMedium <=> medium
                       /\ risk = RiskLow <=> ~critical /\ ~high /\ ~medium

\* The sub-scores 5, 5, 4 average 4.67, which truncates to 4: Medium.
C4_Witness ==
    /\ ret.op = "determineRiskLevel"
    /\ call.techHealth.CodeQuality + call.techHealth.SecurityScore
       + call.techHealth.PerformanceScore = 14
    /\ call.businessValue.CostEfficiency = 70
    /\ ret.val.RiskLevel = RiskMedium

RecommendationOrder == <<"sec-001", "tech-001", "cost-001", "risk-001">>

\* C5: the Recommendations of an assessment hold "sec-001" iff
\* SecurityScore < 3, "tech-001" iff CodeQuality < 3, "cost-001" iff
\* CostEfficiency < 70 and "risk-001" iff RiskLevel is Critical, each at
\* most once and in that order; so the list has zero to four entries.
C5_Recommendations ==
    ret.op = "generateRecommendations" =>
        LET recs == ret.val.Recommendations
            has(id) == \E i \in 1..Len(recs) : recs[i].ID = id
            rank(id) == CHOOSE k \in 1..4 : RecommendationOrder[k] = id
        IN  /\ \A i \in 1..Len(recs) :
                    \E k \in 1..4 : RecommendationOrder[k] = recs[i].ID
            /\ has("sec-001") <=> ret.val.TechnicalHealth.SecurityScore < 3
            /\ has("tech-001") <=> ret.val.TechnicalHealth.CodeQuality < 3
            /\ has("cost-001") <=> ret.val.BusinessValue.CostEfficiency < 70
            /\ has("risk-001") <=> ret.val.RiskLevel = RiskCritical
            /\ \A i, j \in 1..Len(recs) :
                    i < j => rank(recs[i].ID) < rank(recs[j].ID)
            /\ Len(recs) \in 0..4

\* All four recommendations at once
C5_Witness ==
    /\ ret.op = "generateRecommendations"
    /\ Len(ret.val.Recommendations) = 4

\* The steps of the agreement life cycle
LegalStatusSteps ==
    {<<AgreementDraft, AgreementApproved>>, <<AgreementApproved, AgreementActive>>}

\* C8: over any sequence of GovernanceService and DirectionService
\* operations the stored status of an agreement ID only moves
\* draft -> approved -> active: a step keeps it or takes one legal step,
\* never skipping approved and never returning to an earlier status.
C8_StatusOnlyAdvances ==
    [][\A id \in (DOMAIN agreements) \cap (DOMAIN agreements') :
          \/ agreements'[id].Status = agreements[id].Status
          \/ <<agreements[id].Status, agreements'[id].Status>> \in LegalStatusSteps
      ]_vars

\* C9: ApproveGovernanceAgreement on a stored agreement that is not a draft,
\* and ActivateGovernanceAgreement on one that is not approved, return an
\* error and leave the agreement store and the event log as they were; on a
\* draft (an approved) agreement they succeed and store the status approved
\* (active).
C9_StatusChangeChecked ==
    [][/\ (/\ call'.op = "ApproveGovernanceAgreement"
           /\ call'.cmd.AgreementID \in DOMAIN agreements) =>
            IF agreements[call'.cmd.AgreementID].Status # AgreementDraft
            THEN ret'.err /\ agreements' = agreements /\ events' = events
            ELSE /\ ~ret'.err
                 /\ agreements'[call'.cmd.AgreementID].Status = AgreementApproved
       /\ (/\ call'.op = "ActivateGovernanceAgreement"
           /\ call'.cmd.AgreementID \in DOMAIN agreements) =>
            IF agreements[call'.cmd.AgreementID].Status # AgreementApproved
            THEN ret'.err /\ agreements' = agreements /\ events' = events
            ELSE /\ ~ret'.err
                 /\ agreements'[call'.cmd.AgreementID].Status = AgreementActive
      ]_vars

\* ActivateGovernanceAgreement has refused a draft
C9_Witness ==
    /\ ret.op = "ActivateGovernanceAgreement"
    /\ ret.err
    /\ call.cmd.AgreementID \in DOMAIN agreements
    /\ agreements[call.cmd.AgreementID].Status = AgreementDraft

\* The application is stored and the agreement store's index leads from it
\* to a stored agreement
Resolves(appID) ==
    /\ appID \in DOMAIN applications
    /\ appID \in DOMAIN byApplication
    /\ byApplication[appID] \in DOMAIN agreements

Repeated ==
    /\ ret.op = "EvaluateApplication"
    /\ ~call.previous.nil
    /\ call.previous.appID = call.appID

\* The two calls returned the same
SameAssessment ==
    /\ call.previous.err = ret.err
    /\ ~ret.err =>
         /\ call.previous.val.TechnicalHealth = ret.val.TechnicalHealth
         /\ call.previous.val.BusinessValue = ret.val.BusinessValue
         /\ call.previous.val.RiskLevel = ret.val.RiskLevel
         /\ call.previous.val.Recommendations = ret.val.Recommendations

\* The application has none of the timestamps the scores read
Timeless(app) ==
    /\ IsZero(app.CreatedAt)
    /\ IsZero(app.UpdatedAt)
    /\ IsZero(app.Catalogue.LastUpdated)

\* C3 as the spec states it: two calls of EvaluateApplication for the same
\* application with no store operation between them return identical
\* TechnicalHealth, BusinessValue, RiskLevel and Recommendations.
C3_Idempotent == Repeated => SameAssessment

\* C3: two such calls return identical results when they are made at the
\* same clock reading, or when the application has no CreatedAt, UpdatedAt
\* and Catalogue.LastUpdated; the scores read the time that has passed since
\* these, so they can differ otherwise.
C3_IdempotentAtOneTime ==
    (/\ Repeated
     /\ \/ call.previous.at = call.at
        \/ call.appID \in DOMAIN applications => Timeless(applications[call.appID]))
        => SameAssessment

\* An application without timestamps was assessed twice, sixty days apart
C3_Witness ==
    /\ Repeated
    /\ ~ret.err
    /\ call.previous.at # call.at
    /\ Timeless(applications[call.appID])

\* The sum of the counts of a risk distribution
RiskSum(riskDistribution) ==
    RiskCount(riskDistribution, RiskLow) + RiskCount(riskDistribution, RiskMedium)
    + RiskCount(riskDistribution, RiskHigh)
    + RiskCount(riskDistribution, RiskCritical)

\* C6: EvaluatePortfolio on a stored portfolio returns no error; it counts
\* every member in TotalApplications; only the members whose
\* EvaluateApplication succeeds are counted in ActiveApplications,
\* DeprecatedApplications and RiskDistribution, so the risk counts sum to
\* the number of members evaluated and active + deprecated is at most that.
C6_PortfolioSkipsFailedMembers ==
    (ret.op = "EvaluatePortfolio" /\ call.portfolioID \in DOMAIN portfolios) =>
        LET apps == portfolios[call.portfolioID].Applications
            ok   == {i \in 1..Len(apps) :
                        ~EvaluateApplication(apps[i].ID, "system").err}
        IN  /\ ~ret.err
            /\ ret.val.TotalApplications = Len(apps)
            /\ ret.val.ActiveApplications =
                 Cardinality({i \in ok : apps[i].Status = StatusActive})
            /\ ret.val.DeprecatedApplications =
                 Cardinality({i \in ok : apps[i].Status = StatusDeprecated})
            /\ DOMAIN ret.val.RiskDistribution \subseteq RiskLevels
            /\ call.at = now => \A level \in RiskLevels :
                 RiskCount(ret.val.RiskDistribution, level) =
                   Cardinality({i \in ok :
                      EvaluateApplication(apps[i].ID, "system").val.RiskLevel
                        = level})
            /\ RiskSum(ret.val.RiskDistribution) = Cardinality(ok)
            /\ ret.val.ActiveApplications + ret.val.DeprecatedApplications
                 <= RiskSum(ret.val.RiskDistribution)

\* A portfolio of two members was assessed, one member evaluated and one
\* skipped
C6_Witness ==
    /\ ret.op = "EvaluatePortfolio"
    /\ ~ret.err
    /\ ret.val.TotalApplications = 2
    /\ RiskSum(ret.val.RiskDistribution) = 1

\* C7: for a stored portfolio EvaluatePortfolio returns active + deprecated
\* at most TotalApplications, RedundantApplications = 0 and TotalCost = 0,
\* and for one without members TotalApplications = 0 and
\* AverageApplicationAge = 0, without error; for an ID that is not stored it
\* returns an error.
C7_PortfolioAssessmentBounds ==
    ret.op = "EvaluatePortfolio" =>
        IF call.portfolioID \notin DOMAIN portfolios
        THEN ret.err
        ELSE /\ ~ret.err
             /\ ret.val.ActiveApplications + ret.val.DeprecatedApplications
                  <= ret.val.TotalApplications
             /\ ret.val.RedundantApplications = 0
             /\ ret.val.TotalCost = 0
             /\ Len(portfolios[call.portfolioID].Applications) = 0 =>
                  /\ ret.val.TotalApplications = 0
                  /\ ret.val.AverageApplicationAge = 0

\* A portfolio without members was assessed
C7_Witness ==
    /\ ret.op = "EvaluatePortfolio"
    /\ ~ret.err
    /\ call.portfolioID \in DOMAIN portfolios
    /\ Len(portfolios[call.portfolioID].Applications) = 0

\* No two members of the list have the same ID
NoDuplicateMembers(apps) ==
    \A i, j \in 1..Len(apps) : apps[i].ID = apps[j].ID => i = j

\* C10: after any sequence of PortfolioService operations and of the
\* portfolio store's AddApplication and RemoveApplication no stored
\* portfolio has two members with the same ID.
C10_NoDuplicateMembers ==
    \A id \in DOMAIN portfolios : NoDuplicateMembers(portfolios[id].Applications)

\* AddApplicationToPortfolio refused an application that is a member of a
\* portfolio of two
C10_Witness ==
    /\ ret.op = "AddApplicationToPortfolio"
    /\ ret.err
    /\ call.cmd.PortfolioID \in DOMAIN portfolios
    /\ Len(portfolios[call.cmd.PortfolioID].Applications) = 2
    /\ IndexOf(portfolios[call.cmd.PortfolioID].Applications,
               call.cmd.ApplicationID) # 0

\* The step is a call that adds appID to the stored portfolio id, which has
\* a member with that ID already
AddsMemberAgain(id, appID) ==
    /\ id \in DOMAIN portfolios
    /\ IndexOf(portfolios[id].Applications, appID) # 0

\* C11: adding an application to a portfolio that has a member with that ID
\* returns an error and leaves the member list and the event log as they
\* were, through PortfolioService.AddApplicationToPortfolio, through the
\* store's AddApplication and through ApplicationPortfolio.AddApplication.
C11_DuplicateAddRefused ==
    [][/\ (/\ call'.op = "AddApplicationToPortfolio"
           /\ AddsMemberAgain(call'.cmd.PortfolioID, call'.cmd.ApplicationID)) =>
            /\ ret'.err
            /\ portfolios'[call'.cmd.PortfolioID].Applications
                 = portfolios[call'.cmd.PortfolioID].Applications
            /\ events' = events
       /\ (/\ call'.op = "PortfolioRepo.AddApplication"
           /\ AddsMemberAgain(call'.PortfolioID, call'.ApplicationID)) =>
            /\ ret'.err
            /\ portfolios'[call'.PortfolioID].Applications
                 = portfolios[call'.PortfolioID].Applications
            /\ events' = events
       /\ (/\ call'.op = "ApplicationPortfolio.AddApplication"
           /\ IndexOf(call'.ap.Applications, call'.app.ID) # 0) =>
            /\ ret'.err
            /\ ret'.val.Applications = call'.ap.Applications
            /\ portfolios' = portfolios
            /\ events' = events
      ]_vars

\* ApplicationPortfolio.AddApplication refused a valid application that is a
\* member already
C11_Witness ==
    /\ ret.op = "ApplicationPortfolio.AddApplication"
    /\ ret.err
    /\ ~Application_Validate(call.app)
    /\ IndexOf(call.ap.Applications, call.app.ID) # 0
    /\ ret.val.Applications = call.ap.Applications

\* The number of members of apps whose ID is in `counted` and whose copy has
\* the given status
StatusTally(apps, status, counted) ==
    Cardinality({i \in 1..Len(apps) :
                   apps[i].Status = status /\ apps[i].ID \in counted})

\* The step is a write to the application store
WritesApplicationStore ==
    call'.op \in {"ApplicationRepo.Save", "ApplicationRepo.Update",
                  "ApplicationRepo.Delete"}

\* The IDs of the members of apps
MemberIDs(apps) == {apps[i].ID : i \in 1..Len(apps)}

\* C12 as stated: saving, updating or deleting the canonical record of an
\* application leaves the copies in the portfolios as they are, and
\* EvaluatePortfolio tallies every member as active or deprecated by the
\* status of its copy.
C12_EveryCopyTallied ==
    [][/\ WritesApplicationStore => portfolios' = portfolios
       /\ (call'.op = "EvaluatePortfolio" /\ ~ret'.err) =>
            LET apps == portfolios'[call'.portfolioID].Applications
            IN  /\ ret'.val.ActiveApplications
                     = StatusTally(apps, StatusActive, MemberIDs(apps))
                /\ ret'.val.DeprecatedApplications
                     = StatusTally(apps, StatusDeprecated, MemberIDs(apps))
      ]_vars

\* C12: saving, updating or deleting the canonical record of an application
\* leaves the copies in the portfolios as they are, and EvaluatePortfolio
\* tallies a member as active or deprecated by the status of its copy as long
\* as a canonical record is stored under its ID; a member whose canonical
\* record was deleted is in neither tally.
C12_StoredCopyTallied ==
    [][/\ WritesApplicationStore => portfolios' = portfolios
       /\ (call'.op = "EvaluatePortfolio" /\ ~ret'.err) =>
            LET apps == portfolios'[call'.portfolioID].Applications
            IN  /\ ret'.val.ActiveApplications
                     = StatusTally(apps, StatusActive, DOMAIN applications')
                /\ ret'.val.DeprecatedApplications
                     = StatusTally(apps, StatusDeprecated,
                                   DOMAIN applications')
      ]_vars

\* EvaluatePortfolio counted a member as active whose canonical record is
\* deprecated by now
C12_Witness ==
    /\ call.op = "EvaluatePortfolio"
    /\ ~ret.err
    /\ ret.val.ActiveApplications = 1
    /\ ret.val.DeprecatedApplications = 0
    /\ \E i \in 1..Len(portfolios[call.portfolioID].Applications) :
         LET copy == portfolios[call.portfolioID].Applications[i]
         IN  /\ copy.Status = StatusActive
             /\ copy.ID \in DOMAIN applications
             /\ applications[copy.ID].Status = StatusDeprecated

\* C13: after any sequence of CreateGovernanceAgreement calls the agreement
\* store holds no two agreements with the same ApplicationID.
C13_OneAgreementPerApplication ==
    \A g, h \in DOMAIN agreements :
        agreements[g].ApplicationID = agreements[h].ApplicationID => g = h

\* C14: every record of the application store and every member copy of a
\* stored portfolio has a non-empty ID and a non-empty Name, whatever
\* arguments the tools create_application and add_to_portfolio were called
\* with.
C14_RecordsIdentified ==
    /\ \A id \in DOMAIN applications :
         applications[id].ID # "" /\ applications[id].Name # ""
    /\ \A id \in DOMAIN portfolios :
         \A i \in 1..Len(portfolios[id].Applications) :
            /\ portfolios[id].Applications[i].ID # ""
            /\ portfolios[id].Applications[i].Name # ""

\* C15: a call of EvaluateApplication or of EvaluatePortfolio, whether it
\* returns an assessment or an error, leaves the application store, the
\* agreement store, the portfolio store and the event log as they were.
C15_EvaluationReadOnly ==
    [][call'.op \in {"EvaluateApplication", "EvaluatePortfolio"} =>
         /\ applications' = applications
         /\ agreements' = agreements /\ byApplication' = byApplication
         /\ portfolios' = portfolios /\ byOwner' = byOwner
         /\ events' = events
      ]_vars

\* EvaluatePortfolio assessed a member while the stores and the event log
\* were filled
C15_Witness ==
    /\ call.op = "EvaluatePortfolio"
    /\ ~ret.err
    /\ DOMAIN ret.val.RiskDistribution # {}
    /\ Len(events) >= 2
    /\ DOMAIN agreements # {}

\* The step is a call in which the event repository's Save returned an error
EventSaveFailed ==
    "eventSave" \in DOMAIN call' /\ call'.eventSave = "failed"

\* The change the operation of the step makes to its store is in the store
\* after the step
StoreChangeCommitted ==
    LET op == call'.op
        cmd == call'.cmd
    IN  /\ op = "CreateGovernanceAgreement" =>
              /\ cmd.ID \in DOMAIN agreements'
              /\ agreements'[cmd.ID].ApplicationID = cmd.ApplicationID
              /\ agreements'[cmd.ID].Status = AgreementDraft
              /\ byApplication'[cmd.ApplicationID] = cmd.ID
        /\ op = "ApproveGovernanceAgreement" =>
              /\ agreements[cmd.AgreementID].Status = AgreementDraft
              /\ agreements'[cmd.AgreementID].Status = AgreementApproved
        /\ op = "ActivateGovernanceAgreement" =>
              /\ agreements[cmd.AgreementID].Status = AgreementApproved
              /\ agreements'[cmd.AgreementID].Status = AgreementActive
        /\ op = "CreatePortfolio" =>
              /\ cmd.ID \in DOMAIN portfolios'
              /\ portfolios'[cmd.ID].Name = cmd.Name
              /\ portfolios'[cmd.ID].Applications = <<>>
        /\ op = "AddApplicationToPortfolio" =>
              /\ IndexOf(portfolios[cmd.PortfolioID].Applications,
                         cmd.ApplicationID) = 0
              /\ IndexOf(portfolios'[cmd.PortfolioID].Applications,
                         cmd.ApplicationID) # 0
        /\ op = "RemoveApplicationFromPortfolio" =>
              /\ IndexOf(portfolios[cmd.PortfolioID].Applications,
                         cmd.ApplicationID) # 0
              /\ IndexOf(portfolios'[cmd.PortfolioID].Applications,
                         cmd.ApplicationID) = 0

\* C16: when DomainEventRepository.Save fails inside CreatePortfolio,
\* AddApplicationToPortfolio, RemoveApplicationFromPortfolio,
\* CreateGovernanceAgreement, ApproveGovernanceAgreement or
\* ActivateGovernanceAgreement, the operation still returns success and its
\* change to the store is committed.
C16_EventSaveFailureSwallowed ==
    [][EventSaveFailed => ~ret'.err /\ StoreChangeCommitted]_vars

\* An agreement was activated and an application removed from a portfolio
\* without any event having been saved
C16_Witness ==
    /\ "eventSave" \in DOMAIN call
    /\ call.eventSave = "failed"
    /\ call.op = "RemoveApplicationFromPortfolio"
    /\ ~ret.err
    /\ events = <<>>
    /\ "g1" \in DOMAIN agreements
    /\ agreements["g1"].Status = AgreementActive
    /\ "p1" \in DOMAIN portfolios
    /\ portfolios["p1"].Applications = <<>>

\* The number a decimal digit stands for
DigitValue(c) == CHOOSE d \in 0..9 : Digits[d + 1] = c

RECURSIVE ParseInt(_)
\* The number a non-empty sequence of decimal digits stands for
ParseInt(chars) ==
    IF Len(chars) = 1 THEN DigitValue(chars[1])
    ELSE 10 * ParseInt(SubSeq(chars, 1, Len(chars) - 1))
         + DigitValue(chars[Len(chars)])

\* id reads "ap-" followed by the decimal numeral of n
IsPlanID(id, n) ==
    /\ Len(id) > 3
    /\ SubSeq(id, 1, 3) = <<"a", "p", "-">>
    /\ \A k \in 4..Len(id) : \E d \in 1..10 : Digits[d] = id[k]
    /\ id[4] # "0"
    /\ ParseInt(SubSeq(id, 4, Len(id))) = n

\* plan is the plan SetStrategicDirection makes for the n-th objective
IsPlanFor(plan, objective, n) ==
    /\ IsPlanID(plan.ID, n)
    /\ plan.Owner = "TBD"
    /\ plan.Deadline = objective.Deadline
    /\ plan.Status = "pending"
    /\ Len(plan.Actions) = 1
    /\ plan.Actions[1].Status = "pending"
    /\ plan.Actions[1].Deadline = objective.Deadline - 30

\* C17: after a successful SetStrategicDirection the agreement holds the
\* objectives and initiatives given and exactly one action plan per objective,
\* in order, "ap-i" owned by "TBD", pending, due at the objective's deadline,
\* with one pending action due 30 days earlier; the plans it held before are
\* gone; its status, resource allocation and policy framework are as before.
\* For an agreement that is not stored the call returns an error and changes
\* nothing.
C17_StrategicDirectionSet ==
    [][call'.op = "SetStrategicDirection" =>
         LET cmd == call'.cmd
             id  == cmd.AgreementID
         IN  IF id \in DOMAIN agreements
             THEN LET before == agreements[id]
                      after  == agreements'[id]
                      plans  == after.Direct.ActionPlans
                  IN  /\ ~ret'.err
                      /\ after.Direct.StrategicDirection.Objectives = cmd.Objectives
                      /\ after.Direct.StrategicDirection.Initiatives
                           = cmd.Initiatives
                      /\ Len(plans) = Len(cmd.Objectives)
                      /\ \A i \in 1..Len(plans) :
                           IsPlanFor(plans[i], cmd.Objectives[i], i)
                      /\ after.Status = before.Status
                      /\ after.Direct.ResourceAllocation
                           = before.Direct.ResourceAllocation
                      /\ after.Direct.PolicyFramework
                           = before.Direct.PolicyFramework
                      /\ DOMAIN agreements' = DOMAIN agreements
             ELSE /\ ret'.err
                  /\ agreements' = agreements
                  /\ byApplication' = byApplication
                  /\ applications' = applications
                  /\ events' = events
      ]_vars

\* Eleven objectives were given to an approved agreement that has resources
\* and policies, and the eleventh plan is "ap-11"
C17_Witness ==
    /\ call.op = "SetStrategicDirection"
    /\ ~ret.err
    /\ Len(call.cmd.Objectives) = 11
    /\ LET agreement == agreements[call.cmd.AgreementID]
       IN  /\ agreement.Status = AgreementApproved
           /\ agreement.Direct.ResourceAllocation.BudgetAllocations # <<>>
           /\ agreement.Direct.PolicyFramework.Policies # <<>>
           /\ agreement.Direct.ActionPlans[11].ID = <<"a", "p", "-", "1", "1">>

\* C18: MonitorKPIs for a stored agreement, with no KPI repository or no
\* measurement repository configured, returns exactly the two records
\* "kpi-001" (95.5 of 100.0, not achieved) and "kpi-002" (99.2 of 98.0,
\* achieved), in this order; for an agreement that is not stored it returns
\* an error and no record, with or without repositories.
C18_MonitorKPIsFallback ==
    call.op = "MonitorKPIs" =>
        IF call.agreementID \notin DOMAIN agreements
        THEN ret.err /\ Len(ret.val) = 0
        ELSE (call.kpiRepo.nil \/ call.measurementRepo.nil) =>
                /\ ~ret.err
                /\ Len(ret.val) = 2
                /\ ret.val[1].KPIID = "kpi-001"
                /\ ret.val[1].Value = 955 /\ ret.val[1].Target = 1000
                /\ ret.val[1].Achieved = FALSE
                /\ ret.val[2].KPIID = "kpi-002"
                /\ ret.val[2].Value = 992 /\ ret.val[2].Target = 980
                /\ ret.val[2].Achieved = TRUE

\* MonitorKPIs returned the two records for a stored agreement with a KPI
\* repository but no measurement repository
C18_Witness ==
    /\ call.op = "MonitorKPIs"
    /\ call.agreementID \in DOMAIN agreements
    /\ ~call.kpiRepo.nil
    /\ call.measurementRepo.nil
    /\ ~ret.err
    /\ Len(ret.val) = 2

\* C19: with a risk repository configured, MonitorRisks returns one indicator
\* per stored risk, in order, whose Value is probability times impact weight
\* (low 1, medium 2, high 3, critical 4), whose Threshold goes by the level
\* (low 2, medium 4, high 8, critical 12) and whose Status is critical when
\* Value >= 1.5 * Threshold, else warning when Value >= Threshold, else
\* normal.  Values and thresholds are in hundredths.
C19_RiskIndicators ==
    (call.op = "MonitorRisks" /\ ~call.riskRepo.nil /\ ~call.riskRepo.err) =>
        LET risks      == call.riskRepo.risks
            indicators == ret.val.RiskIndicators
            weight     == [low |-> 1, medium |-> 2, high |-> 3, critical |-> 4]
            threshold  == [low |-> 200, medium |-> 400, high |-> 800,
                           critical |-> 1200]
        IN  /\ ~ret.err
            /\ Len(indicators) = Len(risks)
            /\ \A i \in 1..Len(risks) :
                 LET value == risks[i].Probability * weight[risks[i].Impact]
                     limit == threshold[risks[i].Level]
                 IN  /\ indicators[i].Value = value
                     /\ indicators[i].Threshold = limit
                     /\ indicators[i].Status =
                          IF 10 * value >= 15 * limit THEN "critical"
                          ELSE IF value >= limit THEN "warning"
                          ELSE "normal"

\* A risk of probability 0.75 and critical impact at level low came back
\* with value 3.00, exactly one and a half times its threshold, as critical
C19_Witness ==
    /\ call.op = "MonitorRisks"
    /\ ~call.riskRepo.nil
    /\ ~ret.err
    /\ Len(ret.val.RiskIndicators) = 1
    /\ call.riskRepo.risks[1].Probability = 75
    /\ ret.val.RiskIndicators[1].Value = 300
    /\ ret.val.RiskIndicators[1].Threshold = 200
    /\ ret.val.RiskIndicators[1].Status = "critical"

\* The operations of the services and the tools that change a store when
\* they succeed
GovernanceActions ==
    {"create_application", "CreatePortfolio", "CreateGovernanceAgreement",
     "AddApplicationToPortfolio", "RemoveApplicationFromPortfolio",
     "UpdateStrategy", "UpdateAcquisition", "UpdatePerformance",
     "UpdateConformance", "UpdateImplementation",
     "ApproveGovernanceAgreement", "ActivateGovernanceAgreement",
     "SetStrategicDirection", "AllocateResources", "EstablishPolicies"}

\* C20: every successful state-changing operation made through the services
\* or the tools appends at least one event to the event log.
C20_EveryActionLogged ==
    [][(call'.op \in GovernanceActions /\ ~ret'.err) =>
          Len(events') > Len(events)]_vars

\* C21: FindByOwner(owner) returns exactly the stored portfolios whose Owner
\* is owner, each of them once.
C21_OwnerIndexMatchesScan ==
    \A owner \in {"cio", "cfo"} :
        LET result == PortfolioRepo_FindByOwner(owner)
        IN  /\ \A i \in 1..Len(result) :
                 /\ result[i].Owner = owner
                 /\ result[i].ID \in DOMAIN portfolios
                 /\ result[i] = portfolios[result[i].ID]
            /\ \A id \in DOMAIN portfolios :
                 portfolios[id].Owner = owner =>
                    Cardinality({i \in 1..Len(result) : result[i].ID = id}) = 1
            /\ \A i, j \in 1..Len(result) : result[i].ID = result[j].ID => i = j

\* C22: FindByApplicationID(appID) succeeds exactly when some stored
\* agreement has ApplicationID = appID, and the agreement it returns has that
\* ApplicationID.
C22_ApplicationIndexMatchesScan ==
    \A appID \in {"a1", "a2"} :
        LET found == AgreementRepo_FindByApplicationID(appID)
        IN  /\ ~found.err <=>
                 \E id \in DOMAIN agreements : agreements[id].ApplicationID = appID
            /\ ~found.err => found.val.ApplicationID = appID

\* C23: when several DomainEventRepositoryMemory.Save calls run at the same
\* time, the event of every call that has returned is in the log.
C23_NoAppendLost ==
    \A g \in DOMAIN call :
        (call[g].op = "EventRepo.Save" /\ call[g].pc = "done") =>
            \E i \in 1..Len(events) : events[i] = call[g].event

\* The place of a status in the life cycle
StatusRank(status) ==
    CASE status = AgreementDraft    -> 1
      [] status = AgreementApproved -> 2
      [] status = AgreementActive   -> 3
      [] OTHER                      -> 0

\* The goroutines whose call of op has returned success
Succeeded(op) ==
    {g \in DOMAIN call : call[g].op = op /\ call[g].pc = "done" /\ ~ret[g].err}

\* C24: when Approve and Activate calls for one draft agreement interleave,
\* the stored status never moves backwards, and at most one Approve call and
\* at most one Activate call return success.
C24_InterleavedStatusChanges ==
    /\ [][\A id \in (DOMAIN agreements) \cap (DOMAIN agreements') :
            StatusRank(agreements'[id].Status) >= StatusRank(agreements[id].Status)
         ]_vars
    /\ [](/\ Cardinality(Succeeded("ApproveGovernanceAgreement")) <= 1
          /\ Cardinality(Succeeded("ActivateGovernanceAgreement")) <= 1)

\* C25: when two AddApplicationToPortfolio calls for one portfolio and two
\* different applications interleave and both return success, both
\* applications are members of the stored portfolio.
C25_BothAddedAreMembers ==
    \A g \in DOMAIN call, h \in DOMAIN call :
        /\ {g, h} \subseteq Succeeded("AddApplicationToPortfolio")
        /\ call[g].cmd.PortfolioID = call[h].cmd.PortfolioID
        /\ call[g].cmd.ApplicationID # call[h].cmd.ApplicationID
        => /\ call[g].cmd.PortfolioID \in DOMAIN portfolios
           /\ {call[g].cmd.ApplicationID, call[h].cmd.ApplicationID} \subseteq
                  MemberIDs(portfolios[call[g].cmd.PortfolioID].Applications)

\* Whether application a is a member of the stored portfolio p
IsMember(p, a) ==
    p \in DOMAIN portfolios /\ a \in MemberIDs(portfolios[p].Applications)

\* C26: an application added to a portfolio by PortfolioService stays a
\* member of the stored portfolio until RemoveApplicationFromPortfolio for
\* that portfolio and application succeeds; no other operation of the
\* service takes it out or deletes the portfolio.
C26_MemberUntilRemoved ==
    [][\A p \in PfPortfolioIDs, a \in ServiceApplicationIDs :
          IsMember(p, a) /\ ~IsMember(p, a)'
          => /\ call'.op = "RemoveApplicationFromPortfolio"
             /\ call'.cmd = [PortfolioID |-> p, ApplicationID |-> a]
             /\ ~ret'.err
      ]_vars

\* Whether the log has an event of this type for this agreement before
\* position k
LoggedBefore(type, id, k) ==
    \E j \in 1..(k - 1) : events[j].Type = type /\ events[j].AgreementID = id

\* The position of the first event of this type for this agreement, 0 when
\* there is none
FirstLogged(type, id) ==
    IF LoggedBefore(type, id, Len(events) + 1)
    THEN CHOOSE k \in 1..Len(events) :
            /\ events[k].Type = type /\ events[k].AgreementID = id
            /\ ~LoggedBefore(type, id, k)
    ELSE 0

\* C27: in the event log written by GovernanceService calls, every
\* GovernanceAgreementActivated event of an agreement comes after a
\* GovernanceAgreementApproved event of that agreement, which comes after a
\* GovernanceAgreementCreated event of that agreement.
C27_ActivatedAfterApprovedAfterCreated ==
    \A k \in 1..Len(events) :
        events[k].Type = "GovernanceAgreementActivated"
        => LET id       == events[k].AgreementID
               approved == FirstLogged("GovernanceAgreementApproved", id)
           IN  /\ approved # 0
               /\ approved < k
               /\ LoggedBefore("GovernanceAgreementCreated", id, approved)

\* The business value of a stored application scored with its agreement
\* present
GovernedBusinessValue(appID) ==
    LET app       == applications[appID]
        agreement == [nil |-> FALSE,
                      v |-> AdderAgreements[app.GovernanceAgreementID]]
    IN  [UsageMetrics      |-> calculateUsageMetrics(app, agreement),
         BusinessAlignment |-> calculateBusinessAlignment(app, agreement),
         CostEfficiency    |-> calculateCostEfficiency(app, agreement),
         UserSatisfaction  |-> calculateUserSatisfaction(app, agreement)]

\* C28: every assessment EvaluateApplication returns is scored with the
\* agreement present, also when Save and Delete calls on the agreement
\* store run between its two lookups of the agreement.
C28_ScoredWithAgreement ==
    \A g \in Succeeded("EvaluateApplication") :
        ret[g].val.BusinessValue = GovernedBusinessValue(call[g].appID)

\* The risks of a MonitorRisks call whose probability is between 0 and 1,
\* by their position in the list
RisksInRange ==
    IF call.op = "MonitorRisks" /\ ~call.riskRepo.nil /\ ~call.riskRepo.err
    THEN {i \in 1..Len(call.riskRepo.risks) :
            /\ call.riskRepo.risks[i].Probability >= Hundredths(0, 0)
            /\ call.riskRepo.risks[i].Probability <= Hundredths(1, 0)}
    ELSE {}

\* C29 as stated: for every stored risk with probability in [0,1] the
\* indicator's value is at most 4, a risk of level high or critical is
\* reported normal, a risk of level medium is never reported critical, and
\* only a risk of level low is reported critical.
C29_OnlyLowLevelCritical ==
    \A i \in RisksInRange :
        LET risk      == call.riskRepo.risks[i]
            indicator == ret.val.RiskIndicators[i]
        IN  /\ indicator.Value <= Hundredths(4, 0)
            /\ risk.Level \in {RiskHigh, RiskCritical}
               => indicator.Status = RiskStatusNormal
            /\ risk.Level = RiskMedium => indicator.Status # RiskStatusCritical
            /\ indicator.Status = RiskStatusCritical => risk.Level = RiskLow

\* C29, amended: for every stored risk with probability in [0,1] the
\* indicator's value is at most 4, a risk of level high or critical is
\* reported normal, a risk of level medium is never reported critical, and
\* a risk reported critical has the level low or a level that is none of
\* low, medium, high and critical, which gets the threshold of low.
C29_CriticalOnlyAtLowThreshold ==
    \A i \in RisksInRange :
        LET risk      == call.riskRepo.risks[i]
            indicator == ret.val.RiskIndicators[i]
        IN  /\ indicator.Value <= Hundredths(4, 0)
            /\ risk.Level \in {RiskHigh, RiskCritical}
               => indicator.Status = RiskStatusNormal
            /\ risk.Level = RiskMedium => indicator.Status # RiskStatusCritical
            /\ indicator.Status = RiskStatusCritical
               => /\ risk.Level \notin {RiskMedium, RiskHigh, RiskCritical}
                  /\ indicator.Threshold = Hundredths(2, 0)

\* Two risks of probability 1 and critical impact came back with the value
\* 4.00: the one of level medium as warning, the one without a level as
\* critical
C29_Witness ==
    /\ RisksInRange = {1, 2}
    /\ ~ret.err
    /\ call.riskRepo.risks[1].Level = RiskMedium
    /\ call.riskRepo.risks[2].Level = ""
    /\ ret.val.RiskIndicators[1].Value = Hundredths(4, 0)
    /\ ret.val.RiskIndicators[1].Status = RiskStatusWarning
    /\ ret.val.RiskIndicators[2].Value = Hundredths(4, 0)
    /\ ret.val.RiskIndicators[2].Status = RiskStatusCritical

\* b held to 1..5
ClampScore(b) == IF b < 1 THEN 1 ELSE IF b > 5 THEN 5 ELSE b

\* C30: adjustScoreWithVariance(b, minFactor, maxFactor) is b held to 1..5
\* for every integer b and every pair of factors; so CodeQuality and
\* Documentation are the held running score, SecurityScore is the held sum
\* of the running score and the security score, and PerformanceScore the
\* held sum of the running score and the age score.
C30_VarianceIsClamp ==
    /\ ret.op = "adjustScoreWithVariance" => ret.val = ClampScore(call.baseScore)
    /\ ret.op = "assessTechnicalHealth" =>
         LET app   == call.app
             score == ClampScore(3 + analyzeVersionMaturity(app.Version)
                                   + analyzeSecurityProvisions(app.SecurityProvisions)
                                   + analyzeDocumentationCompleteness(app.Catalogue)
                                   + analyzeApplicationAge(app.CreatedAt,
                                                           app.UpdatedAt)
                                   + analyzeApplicationStatus(app.Status))
         IN  /\ ret.val.CodeQuality = score
             /\ ret.val.Documentation = score
             /\ ret.val.SecurityScore =
                  ClampScore(score
                             + analyzeSecurityProvisions(app.SecurityProvisions))
             /\ ret.val.PerformanceScore =
                  ClampScore(score + analyzeApplicationAge(app.CreatedAt,
                                                           app.UpdatedAt))

\* The score 4 with the factors 0.7 and 1.3 came back as 4: the variance of
\* 0.4 and the half point added before truncation make 4.9
C30_Witness ==
    /\ ret.op = "adjustScoreWithVariance"
    /\ call.baseScore = 4
    /\ call.minFactor = 7
    /\ call.maxFactor = 13
    /\ ret.val = 4

=============================================================================
